---- MODULE Spec2Model ----
(***************************************************************************)
(* Model of the fund analysis pipeline of FUND-SELECTOR-CN:                *)
(*   src/src/data_loader.py  preprocess_fund_data                          *)
(*   src/src/indicators.py   calculate_performance_metrics                 *)
(*   src/app.py              main                                          *)
(* Floating point values are modelled as exact rationals n/d extended by   *)
(* the IEEE specials: d = 0 and n = 0 is NaN, d = 0 and n = 1 is +inf,     *)
(* d = 0 and n = -1 is -inf.  Roots and fractional powers are kept in      *)
(* symbolic form (the radicand, the base and the exponent).                *)
(***************************************************************************)
EXTENDS Integers, Sequences, FiniteSets, TLC

VARIABLES pc, fund_raw, benchmark_raw, fund_data, renormalized,
          performance_metrics, st_messages, stages,
          params, crosses, analysis_summary,
          arguments, chart_crosses, signal_counts,
          cache, now, vendor, vendor_calls, fetched

vars == <<pc, fund_raw, benchmark_raw, fund_data, renormalized,
          performance_metrics, st_messages, stages,
          params, crosses, analysis_summary,
          arguments, chart_crosses, signal_counts,
          cache, now, vendor, vendor_calls, fetched>>

\* the variables of the indicator, cross and summary calls
indicator_vars == <<params, crosses, analysis_summary>>

\* arguments: the tables handed to the last operation called, as they are
\* when it returns; chart_crosses: the crosses create_nav_chart marks;
\* signal_counts: the counts display_technical_analysis_summary shows
call_vars == <<arguments, chart_crosses, signal_counts>>

\* the st.cache_data store of the loaders, the clock, the answers of the
\* vendor, the number of requests made to it and the last call served
cache_vars == <<cache, now, vendor, vendor_calls, fetched>>

(***************************************************************************)
(* Bounds of the model.                                                    *)
(***************************************************************************)
MaxRows == 2

MaxBenchRows == 2

(***************************************************************************)
(* Floating point arithmetic (numpy float64, modelled exactly).            *)
(***************************************************************************)
Abs(x) == IF x < 0 THEN -x ELSE x

Sign(x) == IF x < 0 THEN -1 ELSE IF x > 0 THEN 1 ELSE 0

RECURSIVE GCD(_, _)
GCD(a, b) == IF b = 0 THEN a ELSE GCD(b, a % b)

Float(n, d) ==
    IF d = 0 THEN [n |-> Sign(n), d |-> 0]
    ELSE LET s == IF d < 0 THEN -1 ELSE 1
             g == GCD(Abs(n), Abs(d))
         IN  [n |-> (s * n) \div g, d |-> (s * d) \div g]

NaN == [n |-> 0, d |-> 0]

Zero == [n |-> 0, d |-> 1]

One == [n |-> 1, d |-> 1]

IsNaN(x) == x.d = 0 /\ x.n = 0

IsInf(x) == x.d = 0 /\ x.n # 0

IsFinite(x) == x.d # 0

\* the operands are reduced against each other before multiplying, so that no
\* intermediate product is larger than the result
FMul(a, b) ==
    IF IsNaN(a) \/ IsNaN(b) THEN NaN
    ELSE IF (IsInf(a) /\ b.n = 0) \/ (IsInf(b) /\ a.n = 0) THEN NaN
    ELSE IF IsInf(a) \/ IsInf(b) THEN [n |-> Sign(a.n) * Sign(b.n), d |-> 0]
    ELSE IF a.n = 0 \/ b.n = 0 THEN [n |-> 0, d |-> 1]
    ELSE LET g == GCD(Abs(a.n), b.d)
             h == GCD(Abs(b.n), a.d)
         IN  Float((a.n \div g) * (b.n \div h), (a.d \div h) * (b.d \div g))

FDiv(a, b) ==
    IF IsNaN(a) \/ IsNaN(b) THEN NaN
    ELSE IF IsInf(a) /\ IsInf(b) THEN NaN
    ELSE IF IsInf(b) THEN [n |-> 0, d |-> 1]
    ELSE IF b.n = 0 THEN (IF a.n = 0 THEN NaN ELSE [n |-> Sign(a.n), d |-> 0])
    ELSE IF IsInf(a) THEN [n |-> a.n * Sign(b.n), d |-> 0]
    ELSE FMul(a, [n |-> Sign(b.n) * b.d, d |-> Abs(b.n)])

FSub(a, b) ==
    IF IsNaN(a) \/ IsNaN(b) THEN NaN
    ELSE IF IsInf(a) /\ IsInf(b) THEN (IF a.n = b.n THEN NaN ELSE a)
    ELSE IF IsInf(a) THEN a
    ELSE IF IsInf(b) THEN [n |-> -b.n, d |-> 0]
    ELSE LET g == GCD(a.d, b.d)
         IN  Float(a.n * (b.d \div g) - b.n * (a.d \div g), (a.d \div g) * b.d)

FAdd(a, b) == FSub(a, [n |-> -b.n, d |-> b.d])

FAbs(a) == [n |-> Abs(a.n), d |-> a.d]

\* a < b; every comparison with NaN is false
FLess(a, b) ==
    /\ ~IsNaN(a)
    /\ ~IsNaN(b)
    /\ IF IsInf(a) /\ IsInf(b) THEN a.n < b.n
       ELSE a.n * b.d < b.n * a.d

FLeq(a, b) == ~IsNaN(a) /\ ~IsNaN(b) /\ ~FLess(b, a)

(***************************************************************************)
(* Data frames: cols is the set of column names, rows the sequence of      *)
(* rows (each a function from cols to values) and index the row labels.    *)
(* None is Python's None.                                                  *)
(***************************************************************************)
None == [none |-> TRUE]

IsNone(x) == "none" \in DOMAIN x

DataFrame(cols, rows, index) == [cols |-> cols, rows |-> rows, index |-> index]

\* DataFrame.empty: no rows or no columns
Empty(df) == df.cols = {} \/ Len(df.rows) = 0

RangeIndex(n) == [i \in 1..n |-> i - 1]

\* df[name] = values (one value per row)
WithColumn(df, name, values) ==
    DataFrame(df.cols \cup {name},
              [i \in 1..Len(df.rows) |->
                  [c \in df.cols \cup {name} |->
                      IF c = name THEN values[i] ELSE df.rows[i][c]]],
              df.index)

Column(df, name) == [i \in 1..Len(df.rows) |-> df.rows[i][name]]

\* the subsequence of s at the positions where keep holds, in order
RECURSIVE SelectPos(_, _, _)
SelectPos(s, keep, i) ==
    IF i > Len(s) THEN <<>>
    ELSE (IF keep[i] THEN <<s[i]>> ELSE <<>>) \o SelectPos(s, keep, i + 1)

\* df[mask]
Filter(df, keep) ==
    DataFrame(df.cols, SelectPos(df.rows, keep, 1), SelectPos(df.index, keep, 1))

(***************************************************************************)
(* Raw vendor values.  Dates arrive as YYYYMMDD strings, prices as         *)
(* decimal strings; either may be missing ("None") or garbage.             *)
(***************************************************************************)
NaT == 0

DateCols == <<"ann_date", "trade_date">>

NavCols == <<"unit_nav", "adj_nav", "close">>

RawDates == {"None", "bad", "20240102", "20240103"}

RawPrices == {"None", "abc", "0", "1.00", "1.10"}

\* pd.to_datetime of one value with errors='raise': the day number of the
\* date, NaT for a missing value; an unparseable string raises
DateParses(s) == s \in {"None", "20240101", "20240102", "20240103", "20240104", "20240105",
                        "20240106", "20240107", "20240108"}

ToDatetime(s) ==
    CASE s = "20240101" -> 1
      [] s = "20240102" -> 2
      [] s = "20240103" -> 3
      [] s = "20240104" -> 4
      [] s = "20240105" -> 5
      [] s = "20240106" -> 6
      [] s = "20240107" -> 7
      [] s = "20240108" -> 8
      [] OTHER -> NaT

\* pd.to_numeric of one value with errors='coerce'
ToNumeric(s) ==
    CASE s = "0" -> Float(0, 100)
      [] s = "1.00" -> Float(100, 100)
      [] s = "1.05" -> Float(105, 100)
      [] s = "1.10" -> Float(110, 100)
      [] s = "1.21" -> Float(121, 100)
      [] OTHER -> NaN

(***************************************************************************)
(* preprocess_fund_data                                                    *)
(***************************************************************************)
\* mutation of DateColumn: trade_date is looked up before ann_date
DateColumnTradeFirst(cols) ==
    IF "trade_date" \in cols THEN "trade_date"
    ELSE IF "ann_date" \in cols THEN "ann_date"
    ELSE ""

\* the first date column present, "" when there is none
DateColumn(cols) ==
    IF "ann_date" \in cols THEN "ann_date"
    ELSE IF "trade_date" \in cols THEN "trade_date"
    ELSE ""

\* the first net value column present, "" when there is none (nav_column = None)
RECURSIVE FirstPresent(_, _, _)
FirstPresent(names, cols, i) ==
    IF i > Len(names) THEN ""
    ELSE IF names[i] \in cols THEN names[i]
    ELSE FirstPresent(names, cols, i + 1)

NavColumn(cols) == FirstPresent(NavCols, cols, 1)

Injective(p) == \A i, j \in DOMAIN p : p[i] = p[j] => i = j

\* the orders argsort may return for the keys: ascending, NaT last and in
\* original order; the default kind is quicksort, which is free to put rows
\* of equal key in any order
ArgSort(keys) ==
    LET n == Len(keys)
    IN  {p \in [1..n -> 1..n] :
            /\ Injective(p)
            /\ \A i, j \in 1..n : i < j =>
                  LET a == keys[p[i]]
                      b == keys[p[j]]
                  IN  IF a = NaT THEN b = NaT /\ p[i] < p[j]
                      ELSE b = NaT \/ a <= b}

\* df.sort_values(by).reset_index(drop=True): every frame it may return
SortValues(df, by) ==
    {DataFrame(df.cols, [i \in 1..Len(df.rows) |-> df.rows[p[i]]],
               RangeIndex(Len(df.rows))) : p \in ArgSort(Column(df, by))}

\* df.dropna(subset=['nav', 'date'])
DropNa(df) ==
    Filter(df, [i \in 1..Len(df.rows) |->
                   ~IsNaN(df.rows[i]["nav"]) /\ df.rows[i]["date"] # NaT])

\* df['nav'] / df['nav'].iloc[0]
CumNav(nav) == [i \in 1..Len(nav) |-> FDiv(nav[i], nav[1])]

Ret(value, message) == [value |-> value, message |-> message]

\* the body of preprocess_fund_data from the sort on
PreprocessSorted(df) ==
    LET nav_column == NavColumn(df.cols)
    IN  IF nav_column = "" THEN Ret(None, "no_nav_column")
        ELSE LET withnav == WithColumn(df, "nav",
                                [i \in 1..Len(df.rows) |-> ToNumeric(df.rows[i][nav_column])])
                 kept == DropNa(withnav)
             IN  IF Len(kept.rows) = 0
                 THEN Ret(None, "preprocess_failed")    \* iloc[0] raises IndexError
                 ELSE Ret(WithColumn(kept, "cum_nav", CumNav(Column(kept, "nav"))), "")

\* every (return value, st.error message) preprocess_fund_data may produce
preprocess_fund_data(df_raw) ==
    IF IsNone(df_raw) THEN {Ret(None, "")}
    ELSE IF Empty(df_raw) THEN {Ret(None, "")}
    ELSE LET date_column == DateColumn(df_raw.cols)
         IN  IF date_column = "" THEN {Ret(None, "no_date_column")}
             ELSE IF \E i \in 1..Len(df_raw.rows) : ~DateParses(df_raw.rows[i][date_column])
             THEN {Ret(None, "preprocess_failed")}      \* pd.to_datetime raises
             ELSE LET dated == WithColumn(df_raw, "date",
                                  [i \in 1..Len(df_raw.rows) |->
                                      ToDatetime(df_raw.rows[i][date_column])])
                  IN  {PreprocessSorted(sorted) : sorted \in SortValues(dated, "date")}

\* mutation of Copy: df = df_raw, a second name of the table itself
CopyShared(df) == [table |-> df, shared |-> TRUE]

\* df.copy(): a new table with the content of df; what is assigned to the
\* copy is not assigned to df
Copy(df) == [table |-> df, shared |-> FALSE]

\* the table df_raw as it is when preprocess_fund_data(df_raw) returns: the
\* one assignment made before df is bound to the sorted table, df['date'],
\* goes to the copy
PreprocessArgument(df_raw) ==
    IF IsNone(df_raw) THEN df_raw
    ELSE IF Empty(df_raw) THEN df_raw
    ELSE LET date_column == DateColumn(df_raw.cols)
         IN  IF date_column = "" THEN df_raw
             ELSE IF \E i \in 1..Len(df_raw.rows) : ~DateParses(df_raw.rows[i][date_column])
             THEN df_raw
             ELSE LET df == Copy(df_raw)
                  IN  IF df.shared
                      THEN WithColumn(df_raw, "date",
                               [i \in 1..Len(df_raw.rows) |->
                                   ToDatetime(df_raw.rows[i][date_column])])
                      ELSE df_raw

(***************************************************************************)
(* Raw tables handed to preprocess_fund_data.                              *)
(***************************************************************************)
RawCols == {"ann_date", "trade_date", "unit_nav", "adj_nav", "close"}

IsDateCol(c) == c \in {"ann_date", "trade_date"}

RawRows(cols) == {r \in [cols -> RawDates \cup RawPrices] :
                     \A c \in cols : r[c] \in (IF IsDateCol(c) THEN RawDates ELSE RawPrices)}

RawTablesOver(cols, n) ==
    {DataFrame(cols, rows, RangeIndex(n)) : rows \in [1..n -> RawRows(cols)]}

\* one row over every set of columns, and up to max_rows rows of (trade_date, close)
RawTables(max_rows) ==
    (UNION {RawTablesOver(cols, 1) : cols \in SUBSET RawCols})
    \cup (UNION {RawTablesOver({"trade_date", "close"}, n) : n \in 0..max_rows})

NoMetrics == [none |-> TRUE]

InitNorm ==
    /\ pc = "raw"
    /\ fund_raw \in RawTables(MaxRows)
    /\ benchmark_raw = None
    /\ fund_data = None
    /\ renormalized = None
    /\ performance_metrics = NoMetrics
    /\ st_messages = {}
    /\ stages = <<>>
    /\ params = None
    /\ crosses = None
    /\ analysis_summary = None
    /\ arguments = <<>>
    /\ chart_crosses = None
    /\ signal_counts = None
    /\ cache = None
    /\ now = 0
    /\ vendor = None
    /\ vendor_calls = 0
    /\ fetched = None

Say(message) == IF message = "" THEN st_messages ELSE st_messages \cup {message}

\* fund_data = preprocess_fund_data(fund_raw)
CallPreprocess ==
    /\ pc = "raw"
    /\ \E r \in preprocess_fund_data(fund_raw) :
          /\ fund_data' = r.value
          /\ st_messages' = Say(r.message)
    /\ pc' = "normalized"
    /\ stages' = Append(stages, "preprocess")
    /\ UNCHANGED <<fund_raw, benchmark_raw, renormalized, performance_metrics>>
    /\ UNCHANGED indicator_vars
    /\ arguments' = <<PreprocessArgument(fund_raw)>>
    /\ UNCHANGED <<chart_crosses, signal_counts>>
    /\ UNCHANGED cache_vars

\* preprocess_fund_data applied to its own output
CallPreprocessAgain ==
    /\ pc = "normalized"
    /\ \E r \in preprocess_fund_data(fund_data) :
          /\ renormalized' = r.value
          /\ st_messages' = Say(r.message)
    /\ pc' = "renormalized"
    /\ stages' = Append(stages, "preprocess")
    /\ UNCHANGED <<fund_raw, benchmark_raw, fund_data, performance_metrics>>
    /\ UNCHANGED indicator_vars
    /\ arguments' = <<PreprocessArgument(fund_data)>>
    /\ UNCHANGED <<chart_crosses, signal_counts>>
    /\ UNCHANGED cache_vars

NextNorm == CallPreprocess \/ CallPreprocessAgain

SpecNorm == InitNorm /\ [][NextNorm]_vars

(***************************************************************************)
(* calculate_performance_metrics                                           *)
(* A pandas Series is a function from its index labels to its values.      *)
(***************************************************************************)
Symbolic(x) == "op" \in DOMAIN x

\* x > 0 for a float, a standard deviation or a multiple of sqrt(252) (a
\* standard deviation is kept symbolic only when it is finite and positive)
RECURSIVE FPositive(_)
FPositive(x) ==
    IF ~Symbolic(x) THEN FLess(Zero, x)
    ELSE IF x.op = "std" THEN TRUE
    ELSE x.op = "mul_sqrt252" /\ FPositive(x.arg)

Min(S) == CHOOSE x \in S : \A y \in S : x <= y

RECURSIVE FSum(_)
FSum(f) ==
    IF DOMAIN f = {} THEN Zero
    ELSE LET l == Min(DOMAIN f)
         IN  FAdd(f[l], FSum([k \in DOMAIN f \ {l} |-> f[k]]))

\* Series.dropna()
SeriesDropNa(f) == [l \in {k \in DOMAIN f : ~IsNaN(f[k])} |-> f[l]]

\* a column as a Series labelled by the frame's index
AsSeries(df, name) ==
    [l \in {df.index[i] : i \in 1..Len(df.rows)} |->
        df.rows[CHOOSE i \in 1..Len(df.rows) : df.index[i] = l][name]]

\* Series.pct_change() by position: the first row is NaN
PctChange(df, name) ==
    [l \in {df.index[i] : i \in 1..Len(df.rows)} |->
        LET i == CHOOSE k \in 1..Len(df.rows) : df.index[k] = l
        IN  IF i = 1 THEN NaN
            ELSE FSub(FDiv(df.rows[i][name], df.rows[i - 1][name]), One)]

\* Series.mean(), NaN skipped
Mean(f) ==
    LET v == SeriesDropNa(f)
        k == Cardinality(DOMAIN v)
    IN  IF k = 0 THEN NaN ELSE FDiv(FSum(v), Float(k, 1))

\* the variance of the values with ddof degrees of freedom removed
\* (0 * inf is NaN when the divisor is 0)
Variance(f, ddof) ==
    LET k == Cardinality(DOMAIN f)
        m == FDiv(FSum(f), Float(k, 1))
        sq == [l \in DOMAIN f |-> FMul(FSub(f[l], m), FSub(f[l], m))]
    IN  IF k = 0 \/ k - ddof <= 0 THEN NaN ELSE FDiv(FSum(sq), Float(k - ddof, 1))

\* the values of a Series as an array, in index order
RECURSIVE Values(_)
Values(f) ==
    IF DOMAIN f = {} THEN <<>>
    ELSE LET l == Min(DOMAIN f)
         IN  <<f[l]>> \o Values([k \in DOMAIN f \ {l} |-> f[k]])

\* Series.std(): NaN skipped, ddof = 1.  NaN for fewer than two values or
\* a value that is not finite, 0 when all values are equal, and otherwise
\* the root of the sample variance of the values, kept unevaluated
Std(f) ==
    LET v == SeriesDropNa(f)
    IN  IF Cardinality(DOMAIN v) < 2 THEN NaN
        ELSE IF \E l \in DOMAIN v : ~IsFinite(v[l]) THEN NaN
        ELSE IF \A k, l \in DOMAIN v : v[k] = v[l] THEN Zero
        ELSE [op |-> "std", of |-> Values(v), ddof |-> 1]

\* np.cov(x, y)[0][1] for two arrays of one length, paired by position
Covariance(x, y) ==
    LET k == Len(x)
        mx == FDiv(FSum(x), Float(k, 1))
        my == FDiv(FSum(y), Float(k, 1))
        pr == [i \in 1..k |-> FMul(FSub(x[i], mx), FSub(y[i], my))]
    IN  IF k - 1 <= 0 THEN NaN ELSE FDiv(FSum(pr), Float(k - 1, 1))

\* x * np.sqrt(252) for a float or a standard deviation
TimesSqrt252(x) ==
    IF Symbolic(x) THEN [op |-> "mul_sqrt252", arg |-> x]
    ELSE IF IsNaN(x) \/ IsInf(x) \/ x = Zero THEN x
    ELSE [op |-> "mul_sqrt252", arg |-> x]

\* (1 + cum_returns) ** (1 / years) - 1 with years = trading_days / 252
AnnualReturn(cum_returns, trading_days) ==
    LET base == FAdd(One, cum_returns)
    IN  IF IsNaN(base) \/ IsInf(base) THEN base
        ELSE IF base = One THEN Zero
        ELSE IF base = Zero THEN Float(-1, 1)
        ELSE [op |-> "pow_minus_1", base |-> base, exponent |-> Float(252, trading_days)]

\* a / b where at least one is symbolic or the quotient is kept unevaluated
Quotient(a, b) ==
    IF ~Symbolic(a) /\ ~Symbolic(b) THEN FDiv(a, b)
    ELSE [op |-> "div", num |-> a, den |-> b]

Difference(a, b) ==
    IF ~Symbolic(a) /\ ~Symbolic(b) THEN FSub(a, b)
    ELSE [op |-> "sub", left |-> a, right |-> b]

risk_free_rate == Float(3, 100)

\* the larger of two values, NaN skipped
FMax(a, b) == IF IsNaN(a) THEN b ELSE IF IsNaN(b) THEN a ELSE IF FLess(a, b) THEN b ELSE a

\* the smaller of two values, NaN skipped
FMin(a, b) == IF IsNaN(a) THEN b ELSE IF IsNaN(b) THEN a ELSE IF FLess(b, a) THEN b ELSE a

\* the maximum of s[1..i], NaN skipped, NaN when there is none
RECURSIVE MaxUpTo(_, _)
MaxUpTo(s, i) == IF i = 0 THEN NaN ELSE FMax(MaxUpTo(s, i - 1), s[i])

\* Series.min(), NaN skipped
RECURSIVE MinUpTo(_, _)
MinUpTo(s, i) == IF i = 0 THEN NaN ELSE FMin(MinUpTo(s, i - 1), s[i])

SeriesMin(s) == MinUpTo(s, Len(s))

\* mutation of RollingMax: the maximum of the whole column (max() for
\* expanding().max())
RollingMaxWholeColumn(cum) == [i \in 1..Len(cum) |-> MaxUpTo(cum, Len(cum))]

\* df['cum_nav'].expanding().max(): the largest value so far, NaN skipped
RollingMax(cum) == [i \in 1..Len(cum) |-> MaxUpTo(cum, i)]

\* (df['cum_nav'] - rolling_max) / rolling_max
Drawdown(cum, rolling_max) ==
    [i \in 1..Len(cum) |-> FDiv(FSub(cum[i], rolling_max[i]), rolling_max[i])]

MaxDrawdown(cum) == SeriesMin(Drawdown(cum, RollingMax(cum)))

\* mutation of SharpeRatio: the division without its guard
SharpeRatioUnguarded(annual_return, annual_volatility) ==
    Quotient(Difference(annual_return, risk_free_rate), annual_volatility)

SharpeRatio(annual_return, annual_volatility) ==
    IF FPositive(annual_volatility)
    THEN Quotient(Difference(annual_return, risk_free_rate), annual_volatility)
    ELSE Zero

CalmarRatio(annual_return, max_drawdown) ==
    IF max_drawdown # Zero THEN Quotient(annual_return, FAbs(max_drawdown)) ELSE Zero

\* mutation of CumReturns: the closing ratio without the - 1
CumReturnsRatio(cum) == FDiv(cum[Len(cum)], cum[1])

\* (df['cum_nav'].iloc[-1] / df['cum_nav'].iloc[0]) - 1
CumReturns(cum) == FSub(FDiv(cum[Len(cum)], cum[1]), One)

\* the six base entries of the metrics dict
BaseMetrics(df) ==
    LET returns == SeriesDropNa(PctChange(df, "nav"))
        cum_returns == CumReturns(Column(df, "cum_nav"))
        annual_return == AnnualReturn(cum_returns, Len(df.rows))
        annual_volatility == TimesSqrt252(Std(returns))
        max_drawdown == MaxDrawdown(Column(df, "cum_nav"))
    IN  [total_return |-> cum_returns,
         annual_return |-> annual_return,
         annual_volatility |-> annual_volatility,
         max_drawdown |-> max_drawdown,
         sharpe_ratio |-> SharpeRatio(annual_return, annual_volatility),
         calmar_ratio |-> CalmarRatio(annual_return, max_drawdown)]

\* a date of the fund frame as the Timestamp object it is
Timestamp(d) == [ts |-> d]

\* mutation of IsIn: every element is reported as present
IsInAlways(x, values) == TRUE

\* one element of Series.isin(values): datetime64 elements match equal
\* Timestamps and strings that parse to them; a str element matches only an
\* equal str, never a Timestamp
IsIn(x, values) ==
    IF "ts" \in DOMAIN x
    THEN \E v \in values :
            \/ v = x
            \/ "str" \in DOMAIN v /\ DateParses(v.str) /\ ToDatetime(v.str) = x.ts
    ELSE x \in values

ColumnValues(df, name) == {df.rows[i][name] : i \in 1..Len(df.rows)}

ResetIndex(df) == DataFrame(df.cols, df.rows, RangeIndex(Len(df.rows)))

\* df[df['date'].isin(benchmark_df['trade_date'])].reset_index(drop=True)
FundAligned(df, benchmark_df) ==
    ResetIndex(Filter(df, [i \in 1..Len(df.rows) |->
        IsIn(Timestamp(df.rows[i]["date"]), ColumnValues(benchmark_df, "trade_date"))]))

\* benchmark_df[benchmark_df['trade_date'].isin(fund_aligned['date'])].reset_index(drop=True)
BenchmarkAligned(benchmark_df, fund_aligned) ==
    ResetIndex(Filter(benchmark_df, [i \in 1..Len(benchmark_df.rows) |->
        IsIn(benchmark_df.rows[i]["trade_date"],
             {Timestamp(d) : d \in ColumnValues(fund_aligned, "date")})]))

\* a - b for two Series: aligned on the union of the labels
SeriesSub(a, b) ==
    [l \in DOMAIN a \cup DOMAIN b |->
        IF l \in DOMAIN a /\ l \in DOMAIN b THEN FSub(a[l], b[l]) ELSE NaN]

\* mutation of Beta: the division without its guard
BetaUnguarded(covariance, benchmark_variance) == FDiv(covariance, benchmark_variance)

\* covariance / benchmark_variance if benchmark_variance > 0 else 1
Beta(covariance, benchmark_variance) ==
    IF FLess(Zero, benchmark_variance) THEN FDiv(covariance, benchmark_variance) ELSE One

\* excess_returns.mean() * np.sqrt(252) / tracking_error if tracking_error > 0 else 0
InformationRatio(excess_returns, tracking_error) ==
    IF FPositive(tracking_error)
    THEN Quotient(TimesSqrt252(Mean(excess_returns)), tracking_error)
    ELSE Zero

\* the benchmark entries of the metrics dict: a record with the keys that
\* are set, or raised when np.cov is handed arrays of different lengths
RelativeMetrics(df, benchmark_df) ==
    IF IsNone(benchmark_df) THEN [raised |-> FALSE, entries |-> <<>>]
    ELSE IF Empty(benchmark_df) THEN [raised |-> FALSE, entries |-> <<>>]
    ELSE LET fund_aligned == FundAligned(df, benchmark_df)
             benchmark_aligned == BenchmarkAligned(benchmark_df, fund_aligned)
             fund_returns == SeriesDropNa(PctChange(fund_aligned, "nav"))
             bench_returns == SeriesDropNa(PctChange(benchmark_aligned, "close"))
             excess_returns == SeriesSub(fund_returns, bench_returns)
             tracking_error == TimesSqrt252(Std(excess_returns))
             information_ratio == InformationRatio(excess_returns, tracking_error)
             covariance == Covariance(Values(fund_returns), Values(bench_returns))
             benchmark_variance == Variance(bench_returns, 0)
             beta == Beta(covariance, benchmark_variance)
         IN  IF Len(fund_aligned.rows) > 0 /\ Len(benchmark_aligned.rows) > 0
             THEN IF Len(fund_aligned.rows) = Len(benchmark_aligned.rows)
                  THEN IF Cardinality(DOMAIN fund_returns) # Cardinality(DOMAIN bench_returns)
                       THEN [raised |-> TRUE, entries |-> <<>>]
                       ELSE [raised |-> FALSE,
                             entries |-> [beta |-> beta,
                                          information_ratio |-> information_ratio,
                                          tracking_error |-> tracking_error]]
                  ELSE [raised |-> FALSE, entries |-> <<>>]
             ELSE [raised |-> FALSE, entries |-> <<>>]

\* the (return value, st.error message) of calculate_performance_metrics
calculate_performance_metrics(df, benchmark_df) ==
    IF IsNone(df) THEN Ret(None, "")
    ELSE IF Empty(df) THEN Ret(None, "")
    ELSE LET relative == RelativeMetrics(df, benchmark_df)
         IN  IF relative.raised THEN Ret(None, "performance_failed")
             ELSE Ret(BaseMetrics(df) @@ relative.entries, "")

\* the tables df and benchmark_df as they are when
\* calculate_performance_metrics returns: it assigns to neither, and the
\* aligned tables it builds are new ones
PerformanceArguments(df, benchmark_df) == <<df, benchmark_df>>

(***************************************************************************)
(* Inputs of calculate_performance_metrics: a fund table of (trade_date,   *)
(* close) that preprocess_fund_data turns into the fund frame, and a       *)
(* benchmark frame whose trade_date column holds either the vendor's       *)
(* strings or Timestamps.                                                  *)
(***************************************************************************)
MaxFundRows == 3

FundDates == {"20240102", "20240103", "20240104"}

FundPrices == {"1.00", "1.10"}

\* the tables are listed in date order: preprocess_fund_data sorts them
\* anyway, and returns the rows of one date in every order
DateOrdered(rows) ==
    \A i, j \in 1..Len(rows) :
        i < j => ToDatetime(rows[i].trade_date) <= ToDatetime(rows[j].trade_date)

FundTables ==
    UNION {{DataFrame({"trade_date", "close"}, rows, RangeIndex(n)) :
               rows \in {r \in [1..n -> [trade_date : FundDates, close : FundPrices]] :
                            DateOrdered(r)}} :
           n \in 1..MaxFundRows}

\* the five trading days of prices 1.00, 1.10, 1.05, 1.21, 1.00
ExampleTable ==
    DataFrame({"trade_date", "close"},
              <<[trade_date |-> "20240101", close |-> "1.00"],
                [trade_date |-> "20240102", close |-> "1.10"],
                [trade_date |-> "20240103", close |-> "1.05"],
                [trade_date |-> "20240104", close |-> "1.21"],
                [trade_date |-> "20240105", close |-> "1.00"]>>,
              RangeIndex(5))

\* a table with prices of 0, a missing price and a missing date
DegenerateTable ==
    DataFrame({"trade_date", "close"},
              <<[trade_date |-> "20240102", close |-> "0"],
                [trade_date |-> "20240103", close |-> "0"],
                [trade_date |-> "20240104", close |-> "None"],
                [trade_date |-> "None", close |-> "1.00"],
                [trade_date |-> "20240105", close |-> "1.10"]>>,
              RangeIndex(5))

BenchDays == {"20240102", "20240103"}

BenchDates ==
    {[str |-> d] : d \in BenchDays} \cup {Timestamp(ToDatetime(d)) : d \in BenchDays}

BenchCloses == {ToNumeric("1.00"), ToNumeric("1.10")}

SameDtype(rows) ==
    \A i, j \in 1..Len(rows) : DOMAIN rows[i]["trade_date"] = DOMAIN rows[j]["trade_date"]

BenchTables ==
    UNION {{DataFrame({"trade_date", "close"}, rows, RangeIndex(n)) :
               rows \in {r \in [1..n -> [trade_date : BenchDates, close : BenchCloses]] :
                            SameDtype(r)}} :
           n \in 0..MaxBenchRows}

\* the benchmark in the order the vendor lists it, latest day first, its
\* dates converted to Timestamps
DescendingBenchmark ==
    DataFrame({"trade_date", "close"},
              <<[trade_date |-> Timestamp(ToDatetime("20240104")), close |-> ToNumeric("1.10")],
                [trade_date |-> Timestamp(ToDatetime("20240103")), close |-> ToNumeric("1.00")],
                [trade_date |-> Timestamp(ToDatetime("20240102")), close |-> ToNumeric("1.00")]>>,
              RangeIndex(3))

InitPerf ==
    /\ pc = "raw"
    /\ fund_raw \in FundTables \cup {ExampleTable, DegenerateTable}
    /\ benchmark_raw = None
    /\ fund_data = None
    /\ renormalized = None
    /\ performance_metrics = NoMetrics
    /\ st_messages = {}
    /\ stages = <<>>
    /\ params = None
    /\ crosses = None
    /\ analysis_summary = None
    /\ arguments = <<>>
    /\ chart_crosses = None
    /\ signal_counts = None
    /\ cache = None
    /\ now = 0
    /\ vendor = None
    /\ vendor_calls = 0
    /\ fetched = None

\* performance_metrics = calculate_performance_metrics(fund_data, benchmark_df)
\* for any benchmark frame, or none
CallPerformance ==
    /\ pc = "normalized"
    /\ \E benchmark_df \in BenchTables \cup {DescendingBenchmark, None} :
          LET r == calculate_performance_metrics(fund_data, benchmark_df)
          IN  /\ benchmark_raw' = benchmark_df
              /\ performance_metrics' = r.value
              /\ st_messages' = Say(r.message)
              /\ arguments' = PerformanceArguments(fund_data, benchmark_df)
    /\ pc' = "measured"
    /\ stages' = Append(stages, "performance")
    /\ UNCHANGED <<fund_raw, fund_data, renormalized>>
    /\ UNCHANGED indicator_vars
    /\ UNCHANGED <<chart_crosses, signal_counts>>
    /\ UNCHANGED cache_vars

NextPerf == CallPreprocess \/ CallPerformance

SpecPerf == InitPerf /\ [][NextPerf]_vars

(***************************************************************************)
(* calculate_technical_indicators, calculate_rolling_volatility and        *)
(* detect_golden_cross_death_cross.  A pandas_ta function returns None for *)
(* a series shorter than its length; a value it computes by a recursion    *)
(* (RSI, MACD, ...) is kept symbolic: the indicator and the prices it is   *)
(* computed from.                                                          *)
(***************************************************************************)
AllIndicators == {"BOLL", "MACD", "KDJ", "CCI", "DMI", "BBI", "TRIX", "ATR", "OBV", "MFI"}

\* f'MA{length}' and f'RSI{length}'
MAName(length) == "MA" \o ToString(length)

RSIName(length) == "RSI" \o ToString(length)

\* the number of rows below which the pandas_ta call of an indicator
\* returns None (the largest length it is called with)
IndicatorLength(indicator) ==
    CASE indicator = "BOLL" -> 20
      [] indicator = "MACD" -> 26
      [] indicator = "KDJ" -> 9
      [] indicator = "CCI" -> 20
      [] indicator = "DMI" -> 14
      [] indicator = "BBI" -> 24
      [] indicator = "TRIX" -> 12
      [] indicator = "ATR" -> 14
      [] indicator = "OBV" -> 1
      [] indicator = "MFI" -> 14

\* the columns an indicator assigns on a frame of n rows (TRIX_SIGNAL only
\* when ta.trix returns a DataFrame)
IndicatorColumns(indicator, n) ==
    CASE indicator = "BOLL" -> {"BOLL_UPPER", "BOLL_MIDDLE", "BOLL_LOWER"}
      [] indicator = "MACD" -> {"MACD_DIF", "MACD_DEA", "MACD_HIST"}
      [] indicator = "KDJ" -> {"KDJ_K", "KDJ_D", "KDJ_J"}
      [] indicator = "DMI" -> {"DMI_PLUS", "DMI_MINUS", "DMI_ADX"}
      [] indicator = "TRIX" -> IF n < 12 THEN {"TRIX"} ELSE {"TRIX", "TRIX_SIGNAL"}
      [] OTHER -> {indicator}

\* the indicators whose result is subscripted or added before it is
\* assigned: a None result raises TypeError
Raises(indicator, n) ==
    indicator \in {"BOLL", "MACD", "KDJ", "DMI", "BBI"} /\ n < IndicatorLength(indicator)

\* the sum of s[from..to]
RECURSIVE SumRange(_, _, _)
SumRange(s, from, to) ==
    IF from > to THEN Zero ELSE FAdd(SumRange(s, from, to - 1), s[to])

\* mutation of Sma: the mean of the prices there are (min_periods = 1)
SmaExpanding(nav, length) ==
    [i \in 1..Len(nav) |->
        IF i < length THEN FDiv(SumRange(nav, 1, i), Float(i, 1))
        ELSE FDiv(SumRange(nav, i - length + 1, i), Float(length, 1))]

\* close.rolling(length, min_periods=length).mean()
Sma(nav, length) ==
    [i \in 1..Len(nav) |->
        IF i < length THEN NaN
        ELSE FDiv(SumRange(nav, i - length + 1, i), Float(length, 1))]

\* the column assigned from ta.sma(nav, length): None in every row when the
\* series is shorter than length (a length of 0 or less means 10)
SmaColumn(nav, length) ==
    LET l == IF length > 0 THEN length ELSE 10
    IN  IF Len(nav) < l THEN [i \in 1..Len(nav) |-> None] ELSE Sma(nav, l)

\* a column computed by pandas_ta: None in every row for a short series,
\* otherwise undefined during the warm-up and a value of the prices so far
TaColumn(name, nav, length) ==
    IF Len(nav) < length THEN [i \in 1..Len(nav) |-> None]
    ELSE [i \in 1..Len(nav) |->
             IF i < length THEN NaN ELSE [op |-> name, of |-> SubSeq(nav, 1, i)]]

\* the column assigned from ta.rsi(nav, length): the first length rows have
\* no average of length changes yet (a length of 0 or less means 14)
RsiColumn(nav, length) ==
    LET l == IF length > 0 THEN length ELSE 14
    IN  IF Len(nav) < l THEN [i \in 1..Len(nav) |-> None]
        ELSE [i \in 1..Len(nav) |->
                 IF i <= l THEN NaN ELSE [op |-> "RSI", of |-> SubSeq(nav, 1, i)]]

\* (ma3 + ma6 + ma12 + ma24) / 4
Bbi(nav) ==
    [i \in 1..Len(nav) |->
        FDiv(FAdd(FAdd(Sma(nav, 3)[i], Sma(nav, 6)[i]),
                  FAdd(Sma(nav, 12)[i], Sma(nav, 24)[i])), Float(4, 1))]

\* the values of one indicator column
IndicatorColumn(name, nav) ==
    CASE name = "BBI" -> Bbi(nav)
      [] name \in {"BOLL_UPPER", "BOLL_MIDDLE", "BOLL_LOWER"} -> TaColumn(name, nav, 20)
      [] name \in {"MACD_DIF", "MACD_DEA", "MACD_HIST"} -> TaColumn(name, nav, 26)
      [] name \in {"KDJ_K", "KDJ_D", "KDJ_J"} -> TaColumn(name, nav, 9)
      [] name \in {"DMI_PLUS", "DMI_MINUS", "DMI_ADX"} -> TaColumn(name, nav, 14)
      [] name = "CCI" -> TaColumn(name, nav, 20)
      [] name \in {"TRIX", "TRIX_SIGNAL"} -> TaColumn(name, nav, 12)
      [] name = "ATR" -> TaColumn(name, nav, 14)
      [] name = "OBV" -> TaColumn(name, nav, 1)
      [] name = "MFI" -> TaColumn(name, nav, 14)

\* df with the columns of names added, one after the other
RECURSIVE WithIndicatorColumns(_, _)
WithIndicatorColumns(df, names) ==
    IF names = {} THEN df
    ELSE LET name == CHOOSE c \in names : TRUE
         IN  WithIndicatorColumns(
                 WithColumn(df, name, IndicatorColumn(name, Column(df, "nav"))),
                 names \ {name})

\* the frame with the moving averages and the RSI, computed whatever is selected
WithBaseIndicators(df, short_ma, long_ma, rsi_period) ==
    LET nav == Column(df, "nav")
        with_short == WithColumn(df, MAName(short_ma), SmaColumn(nav, short_ma))
        with_long == WithColumn(with_short, MAName(long_ma), SmaColumn(nav, long_ma))
    IN  WithColumn(with_long, RSIName(rsi_period), RsiColumn(nav, rsi_period))

\* the (return value, st.error message) of calculate_technical_indicators:
\* one try block holds every indicator, and its except clause returns the
\* frame it was given
calculate_technical_indicators(df, short_ma, long_ma, rsi_period, selected_indicators) ==
    IF IsNone(df) THEN Ret(None, "")
    ELSE IF Empty(df) THEN Ret(None, "")
    ELSE LET n == Len(df.rows)
             selected == selected_indicators \cap AllIndicators
         IN  IF \E indicator \in selected : Raises(indicator, n)
             THEN Ret(df, "indicators_failed")
             ELSE Ret(WithIndicatorColumns(
                          WithBaseIndicators(df, short_ma, long_ma, rsi_period),
                          UNION {IndicatorColumns(indicator, n) : indicator \in selected}),
                      "")

\* the advanced indicators in the order the code computes them
IndicatorOrder == <<"BOLL", "MACD", "KDJ", "CCI", "DMI", "BBI", "TRIX", "ATR", "OBV", "MFI">>

\* the table df as it is when calculate_technical_indicators(df, ...)
\* returns: every column is assigned to df_indicators, a copy, up to the
\* first indicator that raises
IndicatorsArgument(df, short_ma, long_ma, rsi_period, selected_indicators) ==
    IF IsNone(df) THEN df
    ELSE IF Empty(df) THEN df
    ELSE LET df_indicators == Copy(df)
             n == Len(df.rows)
             computed == {k \in 1..Len(IndicatorOrder) :
                             /\ IndicatorOrder[k] \in selected_indicators
                             /\ \A j \in 1..k : IndicatorOrder[j] \in selected_indicators
                                                    => ~Raises(IndicatorOrder[j], n)}
         IN  IF df_indicators.shared
             THEN WithIndicatorColumns(
                      WithBaseIndicators(df, short_ma, long_ma, rsi_period),
                      UNION {IndicatorColumns(IndicatorOrder[k], n) : k \in computed})
             ELSE df

\* the labels of a Series in index order
RECURSIVE Labels(_)
Labels(S) ==
    IF S = {} THEN <<>>
    ELSE <<Min(S)>> \o Labels(S \ {Min(S)})

\* the default window of calculate_rolling_volatility
window == 60

\* the Series calculate_rolling_volatility returns: the returns lose the
\* rows without a return, and a return has a value once it closes a full
\* window of returns
calculate_rolling_volatility(df, rolling_window) ==
    LET returns == SeriesDropNa(PctChange(df, "nav"))
        labels == Labels(DOMAIN returns)
    IN  [l \in DOMAIN returns |->
            LET k == CHOOSE j \in 1..Len(labels) : labels[j] = l
            IN  IF k < rolling_window THEN NaN
                ELSE TimesSqrt252(Std([j \in 1..rolling_window |-> returns[labels[k - rolling_window + j]]]))]

\* mutation of AssignSeries: the values are laid down from the first row on
AssignByPosition(df, name, series) ==
    WithColumn(df, name,
               [i \in 1..Len(df.rows) |->
                   IF i <= Len(Values(series)) THEN Values(series)[i] ELSE NaN])

\* df[name] = series: each row takes the value of its label, NaN without one
AssignSeries(df, name, series) ==
    WithColumn(df, name,
               [i \in 1..Len(df.rows) |->
                   IF df.index[i] \in DOMAIN series THEN series[df.index[i]] ELSE NaN])

\* mutation of GoldenAt: the averages must have been strictly apart before
GoldenAtStrict(df, short_col, long_col, i) ==
    /\ FLess(df.rows[i - 1][short_col], df.rows[i - 1][long_col])
    /\ FLess(df.rows[i][long_col], df.rows[i][short_col])

\* short[i-1] <= long[i-1] and short[i] > long[i]
GoldenAt(df, short_col, long_col, i) ==
    /\ FLeq(df.rows[i - 1][short_col], df.rows[i - 1][long_col])
    /\ FLess(df.rows[i][long_col], df.rows[i][short_col])

\* the elif branch: short[i-1] >= long[i-1] and short[i] < long[i]
DeathAt(df, short_col, long_col, i) ==
    /\ ~GoldenAt(df, short_col, long_col, i)
    /\ FLeq(df.rows[i - 1][long_col], df.rows[i - 1][short_col])
    /\ FLess(df.rows[i][short_col], df.rows[i][long_col])

\* the first comparison of the loop raises TypeError on a column of None
CrossRaises(df, short_col, long_col) ==
    /\ Len(df.rows) >= 2
    /\ IsNone(df.rows[1][short_col]) \/ IsNone(df.rows[1][long_col])

\* the (golden_cross, death_cross) lists of detect_golden_cross_death_cross
\* and its st.error message
detect_golden_cross_death_cross(df, short_ma, long_ma) ==
    LET short_col == MAName(short_ma)
        long_col == MAName(long_ma)
        no_cross == [golden_cross |-> <<>>, death_cross |-> <<>>, message |-> ""]
    IN  IF IsNone(df) THEN no_cross
        ELSE IF Empty(df) THEN no_cross
        ELSE IF short_col \notin df.cols \/ long_col \notin df.cols THEN no_cross
        ELSE IF CrossRaises(df, short_col, long_col)
        THEN [golden_cross |-> <<>>, death_cross |-> <<>>, message |-> "cross_detection_failed"]
        ELSE LET n == Len(df.rows)
                 dates == Column(df, "date")
             IN  [golden_cross |->
                      SelectPos(dates, [i \in 1..n |->
                          i >= 2 /\ GoldenAt(df, short_col, long_col, i)], 1),
                  death_cross |->
                      SelectPos(dates, [i \in 1..n |->
                          i >= 2 /\ DeathAt(df, short_col, long_col, i)], 1),
                  message |-> ""]

\* the lists of detect_cross_points when its scan goes through
CrossPoints(df, short_col, long_col) ==
    LET n == Len(df.rows)
        dates == Column(df, "date")
    IN  [golden_cross |->
             SelectPos(dates, [i \in 1..n |-> i >= 2 /\ GoldenAt(df, short_col, long_col, i)], 1),
         death_cross |->
             SelectPos(dates, [i \in 1..n |-> i >= 2 /\ DeathAt(df, short_col, long_col, i)], 1)]

\* mutation of detect_cross_points: a date is a golden cross only when the
\* short average was strictly below the long one the row before
detect_cross_points_strict(df, short_ma, long_ma) ==
    LET short_col == MAName(short_ma)
        long_col == MAName(long_ma)
        n == Len(df.rows)
    IN  IF short_col \notin df.cols \/ long_col \notin df.cols \/ CrossRaises(df, short_col, long_col)
        THEN [golden_cross |-> <<>>, death_cross |-> <<>>]
        ELSE [golden_cross |->
                 SelectPos(Column(df, "date"),
                           [i \in 1..n |-> i >= 2 /\ GoldenAtStrict(df, short_col, long_col, i)], 1),
              death_cross |-> CrossPoints(df, short_col, long_col).death_cross]

\* detect_cross_points of the visualization module: the whole body is in a
\* try block whose except clause returns two empty lists and shows nothing;
\* df.columns of None raises there
detect_cross_points(df, short_ma, long_ma) ==
    LET short_col == MAName(short_ma)
        long_col == MAName(long_ma)
        no_cross == [golden_cross |-> <<>>, death_cross |-> <<>>]
    IN  IF IsNone(df) THEN no_cross
        ELSE IF short_col \notin df.cols \/ long_col \notin df.cols THEN no_cross
        ELSE IF CrossRaises(df, short_col, long_col) THEN no_cross
        ELSE CrossPoints(df, short_col, long_col)

(***************************************************************************)
(* Inputs of the indicator calls: the frame preprocess_fund_data returns   *)
(* for a table of (trade_date, close) in date order, and the parameters.   *)
(***************************************************************************)
MaxIndRows == 5

IndPrices == {"1.00", "1.10"}

Days == <<"20240101", "20240102", "20240103", "20240104", "20240105",
          "20240106", "20240107", "20240108">>

\* a table of consecutive days, or one whose last two rows are of one day
IndTable(prices, repeat_last) ==
    DataFrame({"trade_date", "close"},
              [i \in 1..Len(prices) |->
                  [trade_date |-> Days[IF repeat_last /\ i = Len(prices) /\ i > 1
                                       THEN i - 1 ELSE i],
                   close |-> prices[i]]],
              RangeIndex(Len(prices)))

IndTables(max_rows) ==
    {IndTable(prices, repeat_last) :
        prices \in UNION {[1..n -> IndPrices] : n \in 1..max_rows},
        repeat_last \in BOOLEAN}

\* a table with a row that preprocess_fund_data drops: the labels of the
\* frame skip it
GappedTable ==
    DataFrame({"trade_date", "close"},
              <<[trade_date |-> "20240101", close |-> "1.00"],
                [trade_date |-> "20240102", close |-> "None"],
                [trade_date |-> "20240103", close |-> "1.10"],
                [trade_date |-> "20240104", close |-> "1.00"],
                [trade_date |-> "20240105", close |-> "1.21"]>>,
              RangeIndex(5))

\* what preprocess_fund_data returns for a table in date order
IndFrame(table) ==
    PreprocessSorted(WithColumn(table, "date",
        [i \in 1..Len(table.rows) |-> ToDatetime(table.rows[i]["trade_date"])])).value

SelectedChoices == {{}, {"CCI", "OBV", "TRIX"}, {"CCI", "BOLL", "MFI"}, AllIndicators}

IndParams == [short_ma : {2}, long_ma : {3, 20}, rsi_period : {3, 14},
              selected_indicators : SelectedChoices, window : {2, 60}]

InitInd ==
    /\ pc = "normalized"
    /\ fund_raw \in IndTables(MaxIndRows) \cup {GappedTable}
    /\ fund_data = IndFrame(fund_raw)
    /\ params \in IndParams
    /\ benchmark_raw = None
    /\ renormalized = None
    /\ performance_metrics = NoMetrics
    /\ st_messages = {}
    /\ stages = <<>>
    /\ crosses = None
    /\ analysis_summary = None
    /\ arguments = <<>>
    /\ chart_crosses = None
    /\ signal_counts = None
    /\ cache = None
    /\ now = 0
    /\ vendor = None
    /\ vendor_calls = 0
    /\ fetched = None

\* fund_data = calculate_technical_indicators(fund_data, ...)
CallIndicators ==
    /\ pc = "normalized"
    /\ LET r == calculate_technical_indicators(fund_data, params.short_ma, params.long_ma,
                                                params.rsi_period, params.selected_indicators)
       IN  /\ fund_data' = r.value
           /\ st_messages' = Say(r.message)
    /\ pc' = "indicated"
    /\ stages' = Append(stages, "calculate_technical_indicators")
    /\ UNCHANGED <<fund_raw, benchmark_raw, renormalized, performance_metrics>>
    /\ UNCHANGED indicator_vars
    /\ arguments' = <<IndicatorsArgument(fund_data, params.short_ma, params.long_ma,
                                        params.rsi_period, params.selected_indicators)>>
    /\ UNCHANGED <<chart_crosses, signal_counts>>
    /\ UNCHANGED cache_vars

\* fund_data['rolling_volatility'] = calculate_rolling_volatility(fund_data, window)
CallRollingVolatility ==
    /\ pc = "indicated"
    /\ fund_data' = AssignSeries(fund_data, "rolling_volatility",
                                 calculate_rolling_volatility(fund_data, params.window))
    /\ pc' = "volatility"
    /\ stages' = Append(stages, "calculate_rolling_volatility")
    /\ UNCHANGED <<fund_raw, benchmark_raw, renormalized, performance_metrics, st_messages>>
    /\ UNCHANGED indicator_vars
    /\ UNCHANGED call_vars
    /\ UNCHANGED cache_vars

\* golden_cross, death_cross = detect_golden_cross_death_cross(fund_data, ...)
CallDetect ==
    /\ pc = "volatility"
    /\ LET r == detect_golden_cross_death_cross(fund_data, params.short_ma, params.long_ma)
       IN  /\ crosses' = [golden_cross |-> r.golden_cross, death_cross |-> r.death_cross]
           /\ st_messages' = Say(r.message)
    /\ pc' = "detected"
    /\ stages' = Append(stages, "detect_golden_cross_death_cross")
    /\ UNCHANGED <<fund_raw, benchmark_raw, fund_data, renormalized, performance_metrics>>
    /\ UNCHANGED <<params, analysis_summary>>
    /\ UNCHANGED call_vars
    /\ UNCHANGED cache_vars

\* create_nav_chart: golden_cross, death_cross = detect_cross_points(df, ...)
CallDetectCrossPoints ==
    /\ pc = "detected"
    /\ chart_crosses' = detect_cross_points(fund_data, params.short_ma, params.long_ma)
    /\ pc' = "charted"
    /\ stages' = Append(stages, "detect_cross_points")
    /\ UNCHANGED <<fund_raw, benchmark_raw, fund_data, renormalized, performance_metrics,
                   st_messages>>
    /\ UNCHANGED indicator_vars
    /\ UNCHANGED <<arguments, signal_counts>>
    /\ UNCHANGED cache_vars

NextInd == CallIndicators \/ CallRollingVolatility \/ CallDetect \/ CallDetectCrossPoints

SpecInd == InitInd /\ [][NextInd]_vars

(***************************************************************************)
(* generate_technical_analysis_summary reads the column names of the table *)
(* and its last row.  The signal texts of the source are written in        *)
(* English: bullish, bearish, overbought, oversold, neutral, above_upper,  *)
(* below_lower, strong, weak, uptrend, downtrend, ranging.                 *)
(***************************************************************************)
Latest(df) == df.rows[Len(df.rows)]

\* dif > dea and hist > 0, else dif < dea and hist < 0, else neutral
MacdSignal(latest_data) ==
    LET dif_latest == latest_data["MACD_DIF"]
        dea_latest == latest_data["MACD_DEA"]
        hist_latest == FSub(dif_latest, dea_latest)
    IN  IF FLess(dea_latest, dif_latest) /\ FLess(Zero, hist_latest) THEN "bullish"
        ELSE IF FLess(dif_latest, dea_latest) /\ FLess(hist_latest, Zero) THEN "bearish"
        ELSE "neutral"

\* the columns whose name starts with RSI
RsiCols(df) == {c \in df.cols : \E p \in 1..30 : c = RSIName(p)}

RsiSignal(rsi_latest) ==
    IF FLess(Float(70, 1), rsi_latest) THEN "overbought"
    ELSE IF FLess(rsi_latest, Float(30, 1)) THEN "oversold"
    ELSE "neutral"

KdjSignal(latest_data) ==
    LET k_latest == latest_data["KDJ_K"]
        d_latest == latest_data["KDJ_D"]
        j_latest == latest_data["KDJ_J"]
    IN  IF FLess(Float(80, 1), k_latest) /\ FLess(Float(80, 1), d_latest) THEN "overbought"
        ELSE IF FLess(k_latest, Float(20, 1)) /\ FLess(d_latest, Float(20, 1)) THEN "oversold"
        ELSE IF FLess(d_latest, k_latest) /\ FLess(Zero, j_latest) THEN "bullish"
        ELSE IF FLess(k_latest, d_latest) /\ FLess(j_latest, Zero) THEN "bearish"
        ELSE "neutral"

\* the last branch is an else: it is taken whenever the three comparisons
\* before it are false
BollSignal(latest_data) ==
    LET nav_latest == latest_data["nav"]
    IN  IF FLess(latest_data["BOLL_UPPER"], nav_latest) THEN "above_upper"
        ELSE IF FLess(nav_latest, latest_data["BOLL_LOWER"]) THEN "below_lower"
        ELSE IF FLess(latest_data["BOLL_MIDDLE"], nav_latest) THEN "strong"
        ELSE "weak"

CciSignal(cci_latest) ==
    IF FLess(Float(100, 1), cci_latest) THEN "overbought"
    ELSE IF FLess(cci_latest, Float(-100, 1)) THEN "oversold"
    ELSE "neutral"

DmiSignal(latest_data) ==
    IF FLess(Float(25, 1), latest_data["DMI_ADX"])
    THEN (IF FLess(latest_data["DMI_MINUS"], latest_data["DMI_PLUS"]) THEN "uptrend"
          ELSE "downtrend")
    ELSE "ranging"

MfiSignal(mfi_latest) ==
    IF FLess(Float(80, 1), mfi_latest) THEN "overbought"
    ELSE IF FLess(mfi_latest, Float(20, 1)) THEN "oversold"
    ELSE "neutral"

BbiSignal(latest_data) ==
    IF FLess(latest_data["BBI"], latest_data["nav"]) THEN "bullish" ELSE "bearish"

TrixSignal(trix_latest) == IF FLess(Zero, trix_latest) THEN "bullish" ELSE "bearish"

\* the indicators the summary analyses: those whose columns are in the table
Analysed(df) ==
    {g \in {"MACD", "RSI", "KDJ", "BOLL", "CCI", "DMI", "MFI", "BBI", "TRIX"} :
        CASE g = "MACD" -> {"MACD_DIF", "MACD_DEA"} \subseteq df.cols
          [] g = "RSI" -> RsiCols(df) # {}
          [] g = "KDJ" -> {"KDJ_K", "KDJ_D", "KDJ_J"} \subseteq df.cols
          [] g = "BOLL" -> {"BOLL_UPPER", "BOLL_MIDDLE", "BOLL_LOWER"} \subseteq df.cols
          [] g = "DMI" -> {"DMI_PLUS", "DMI_MINUS", "DMI_ADX"} \subseteq df.cols
          [] OTHER -> g \in df.cols}

\* the columns of an analysed indicator that the summary reads
SummaryColumns(df, g) ==
    CASE g = "MACD" -> {"MACD_DIF", "MACD_DEA"}
      [] g = "RSI" -> {CHOOSE c \in RsiCols(df) : TRUE}
      [] g = "KDJ" -> {"KDJ_K", "KDJ_D", "KDJ_J"}
      [] g = "BOLL" -> {"BOLL_UPPER", "BOLL_MIDDLE", "BOLL_LOWER"}
      [] g = "DMI" -> {"DMI_PLUS", "DMI_MINUS", "DMI_ADX"}
      [] OTHER -> {g}

Signal(df, g) ==
    LET latest_data == Latest(df)
    IN  CASE g = "MACD" -> MacdSignal(latest_data)
          [] g = "RSI" -> RsiSignal(latest_data[CHOOSE c \in RsiCols(df) : TRUE])
          [] g = "KDJ" -> KdjSignal(latest_data)
          [] g = "BOLL" -> BollSignal(latest_data)
          [] g = "CCI" -> CciSignal(latest_data["CCI"])
          [] g = "DMI" -> DmiSignal(latest_data)
          [] g = "MFI" -> MfiSignal(latest_data["MFI"])
          [] g = "BBI" -> BbiSignal(latest_data)
          [] g = "TRIX" -> TrixSignal(latest_data["TRIX"])

\* the branches that add one to signals_bullish, and those that add one to
\* signals_bearish
BullishSignals == {"bullish", "oversold", "below_lower", "strong", "uptrend"}

\* mutation of BearishSignals: the two labels of the Bollinger rule that
\* add one to signals_bearish add nothing
BearishSignalsWithoutBoll == {"bearish", "overbought", "downtrend"}

BearishSignals == {"bearish", "overbought", "above_upper", "weak", "downtrend"}

\* comparing None with a number raises TypeError
SummaryRaises(df) ==
    \E g \in Analysed(df) : \E c \in SummaryColumns(df, g) : IsNone(Latest(df)[c])

\* the number of signals that say the fund is volatile
VolatilitySignals(df) ==
    LET latest_data == Latest(df)
        rsi == IF "RSI14" \in df.cols
                  /\ FLess(Float(30, 1), FAbs(FSub(latest_data["RSI14"], Float(50, 1))))
               THEN 1 ELSE 0
        atr == IF "ATR" \in df.cols
                  /\ ~IsNone(latest_data["ATR"])
                  /\ ~IsNaN(latest_data["ATR"])
                  /\ FLess(Zero, latest_data["ATR"])
                  /\ FLess(Float(1, 50), latest_data["ATR"])
               THEN 1 ELSE 0
    IN  rsi + atr

\* mutation of OverallSignal: a tie counts as bullish
OverallSignalTieBullish(signals_bullish, signals_bearish) ==
    IF signals_bullish >= signals_bearish THEN "bullish" ELSE "bearish"

OverallSignal(signals_bullish, signals_bearish) ==
    IF signals_bullish > signals_bearish THEN "bullish"
    ELSE IF signals_bearish > signals_bullish THEN "bearish"
    ELSE "neutral"

RiskLevel(volatility_signals) ==
    IF volatility_signals >= 2 THEN "high"
    ELSE IF volatility_signals = 1 THEN "medium"
    ELSE "low"

generate_technical_analysis_summary(df, selected_indicators) ==
    IF IsNone(df) \/ Len(df.rows) = 0 THEN Ret(None, "")
    ELSE IF SummaryRaises(df) THEN Ret(None, "summary_failed")
    ELSE LET indicator_analysis == [g \in Analysed(df) |-> Signal(df, g)]
             signals_bullish ==
                 Cardinality({g \in Analysed(df) : indicator_analysis[g] \in BullishSignals})
             signals_bearish ==
                 Cardinality({g \in Analysed(df) : indicator_analysis[g] \in BearishSignals})
             volatility_signals == VolatilitySignals(df)
         IN  Ret([overall_signal |-> OverallSignal(signals_bullish, signals_bearish),
                  risk_level |-> RiskLevel(volatility_signals),
                  indicator_analysis |-> indicator_analysis,
                  signals_bullish |-> signals_bullish,
                  signals_bearish |-> signals_bearish],
                 "")

\* The last rows the summary is applied to.  Each indicator has the latest
\* values of its columns: NaN during its warm-up, None where pandas_ta gave
\* no series for a single column, and numbers on each side of the
\* thresholds of its rule.
Levels(values) == {[n |-> v, d |-> 1] : v \in values}

LatestValues(g, rsi_period) ==
    CASE g = "MACD" ->
           {[MACD_DIF |-> p[1], MACD_DEA |-> p[2], MACD_HIST |-> FSub(p[1], p[2])] :
               p \in {<<NaN, NaN>>, <<One, NaN>>, <<One, Zero>>, <<Zero, One>>, <<One, One>>}}
      [] g = "RSI" -> {RSIName(rsi_period) :> v : v \in {NaN, None} \cup Levels({10, 25, 50, 75, 90})}
      [] g = "KDJ" ->
           {[KDJ_K |-> p[1], KDJ_D |-> p[2],
             KDJ_J |-> FSub(FMul(Float(3, 1), p[1]), FMul(Float(2, 1), p[2]))] :
               p \in ({NaN} \cup Levels({10, 50, 90})) \X ({NaN} \cup Levels({-40, 15, 60, 85}))}
      [] g = "BOLL" ->
           {[BOLL_UPPER |-> p[1], BOLL_MIDDLE |-> p[2], BOLL_LOWER |-> p[3]] :
               p \in {<<NaN, NaN, NaN>>,
                      <<Float(9, 10), Float(8, 10), Float(7, 10)>>,
                      <<Float(13, 10), Float(12, 10), Float(11, 10)>>,
                      <<Float(12, 10), Float(9, 10), Float(8, 10)>>,
                      <<Float(12, 10), Float(11, 10), Float(9, 10)>>}}
      [] g = "CCI" -> {[CCI |-> v] : v \in {NaN, None} \cup Levels({-150, 0, 150})}
      [] g = "DMI" ->
           {[DMI_PLUS |-> p[1], DMI_MINUS |-> p[2], DMI_ADX |-> p[3]] :
               p \in {<<NaN, NaN, NaN>>,
                      <<Float(30, 1), Float(10, 1), NaN>>,
                      <<Float(30, 1), Float(10, 1), Float(40, 1)>>,
                      <<Float(10, 1), Float(30, 1), Float(40, 1)>>,
                      <<Float(30, 1), Float(10, 1), Float(20, 1)>>}}
      [] g = "MFI" -> {[MFI |-> v] : v \in {NaN, None} \cup Levels({10, 50, 90})}
      [] g = "BBI" -> {[BBI |-> v] : v \in {NaN, Float(9, 10), Float(11, 10)}}
      [] g = "TRIX" -> {[TRIX |-> v] : v \in {NaN, None, Float(-1, 100), Float(1, 100)}}
      [] g = "ATR" -> {[ATR |-> v] : v \in {NaN, None, Float(1, 100), Float(3, 100)}}

RECURSIVE LatestRows(_, _)
LatestRows(groups, rsi_period) ==
    IF groups = {} THEN {[nav |-> One]}
    ELSE LET g == CHOOSE x \in groups : TRUE
         IN  {values @@ latest : values \in LatestValues(g, rsi_period),
                                  latest \in LatestRows(groups \ {g}, rsi_period)}

\* the indicators whose columns the table holds
SummaryChoices ==
    {{}, {"MACD", "RSI"}, {"KDJ", "CCI"}, {"BOLL", "BBI"}, {"DMI", "MFI"},
     {"TRIX", "RSI", "ATR"}, {"BOLL", "TRIX", "MACD"}}

SummaryFrames(choices, rsi_period) ==
    UNION {{DataFrame(DOMAIN latest, <<latest>>, RangeIndex(1)) :
               latest \in LatestRows(groups, rsi_period)} :
           groups \in choices}

\* the parameters of the sidebar: the RSI period is its default, 14, or the
\* least period of the slider
SummaryParams == [short_ma : {20}, long_ma : {60}, rsi_period : {7, 14}]

InitSummary ==
    /\ pc = "detected"
    /\ params \in SummaryParams
    /\ fund_data \in SummaryFrames(SummaryChoices, params.rsi_period)
    /\ fund_raw = None
    /\ benchmark_raw = None
    /\ renormalized = None
    /\ performance_metrics = NoMetrics
    /\ st_messages = {}
    /\ stages = <<>>
    /\ crosses = None
    /\ analysis_summary = None
    /\ arguments = <<>>
    /\ chart_crosses = None
    /\ signal_counts = None
    /\ cache = None
    /\ now = 0
    /\ vendor = None
    /\ vendor_calls = 0
    /\ fetched = None

\* analysis_summary = generate_technical_analysis_summary(fund_data, all_indicators)
CallSummary ==
    /\ pc = "detected"
    /\ LET r == generate_technical_analysis_summary(fund_data, AllIndicators)
       IN  /\ analysis_summary' = r.value
           /\ st_messages' = Say(r.message)
    /\ pc' = "summarized"
    /\ stages' = Append(stages, "generate_technical_analysis_summary")
    /\ UNCHANGED <<fund_raw, benchmark_raw, fund_data, renormalized, performance_metrics>>
    /\ UNCHANGED <<params, crosses>>
    /\ UNCHANGED call_vars
    /\ UNCHANGED cache_vars

\* the counts display_technical_analysis_summary shows in its third
\* column: the labels that contain the text of bullish or of oversold, and
\* those that contain the text of bearish or of overbought; no other label
\* of the summary contains one of these texts
display_technical_analysis_summary(summary) ==
    IF IsNone(summary) THEN None
    ELSE LET signal == summary.indicator_analysis
         IN  [bullish_count |->
                  Cardinality({g \in DOMAIN signal : signal[g] \in {"bullish", "oversold"}}),
              bearish_count |->
                  Cardinality({g \in DOMAIN signal : signal[g] \in {"bearish", "overbought"}})]

\* if analysis_summary: display_technical_analysis_summary(analysis_summary)
CallDisplay ==
    /\ pc = "summarized"
    /\ signal_counts' = display_technical_analysis_summary(analysis_summary)
    /\ pc' = "displayed"
    /\ stages' = Append(stages, "display_technical_analysis_summary")
    /\ UNCHANGED <<fund_raw, benchmark_raw, fund_data, renormalized, performance_metrics,
                   st_messages>>
    /\ UNCHANGED indicator_vars
    /\ UNCHANGED <<arguments, chart_crosses>>
    /\ UNCHANGED cache_vars

NextSummary == CallSummary \/ CallDisplay

SpecSummary == InitSummary /\ [][NextSummary]_vars

(***************************************************************************)
(* The loaders behind st.cache_data(ttl=3600).  A call is served from the  *)
(* store when the store holds an entry for its key that is younger than    *)
(* ttl; otherwise the body runs, asks the vendor, and its return value,    *)
(* None included, is stored with the messages it showed.  The argument     *)
(* _pro starts with an underscore and is left out of the key.              *)
(***************************************************************************)
ttl == 3600

MaxTicks == 3

MaxVendorCalls == 3

\* the API clients made from two tokens
Clients == {"pro_a", "pro_b"}

\* the identifier and the date range of a call
Requests ==
    [function : {"load_fund_data"}, code : {"510300.SH"},
     start_date : {"20240101"}, end_date : {"20240105"}]
    \cup [function : {"load_benchmark_data"}, code : {"000300.SH"},
          start_date : {"20240101"}, end_date : {"20240105"}]

\* what the vendor answers to a request at the moment: an error, no row at
\* all, rows, or (for a fund) rows from fund_daily only
VendorAnswers(request) ==
    IF request.function = "load_fund_data" THEN {"fails", "empty", "rows", "daily_only"}
    ELSE {"fails", "empty", "rows"}

NavRows ==
    DataFrame({"ann_date", "unit_nav"},
              <<[ann_date |-> "20240102", unit_nav |-> "1.00"]>>, RangeIndex(1))

DailyRows ==
    DataFrame({"trade_date", "close"},
              <<[trade_date |-> "20240102", close |-> "1.00"]>>, RangeIndex(1))

IndexRows ==
    DataFrame({"trade_date", "close"},
              <<[trade_date |-> [str |-> "20240102"], close |-> One]>>, RangeIndex(1))

\* the body of load_fund_data: its return value, the messages it shows and
\* the number of requests it makes
LoadFundBody(answer) ==
    CASE answer = "rows" -> [value |-> NavRows, messages |-> {}, requests |-> 1]
      [] answer = "daily_only" ->
           [value |-> DailyRows, messages |-> {"fund_nav_empty"}, requests |-> 2]
      [] answer = "empty" ->
           [value |-> None, messages |-> {"fund_nav_empty", "no_fund_rows"}, requests |-> 2]
      [] answer = "fails" ->
           [value |-> None, messages |-> {"load_fund_failed"}, requests |-> 1]

\* the body of load_benchmark_data
LoadBenchmarkBody(answer) ==
    CASE answer = "rows" -> [value |-> IndexRows, messages |-> {}, requests |-> 1]
      [] answer = "empty" ->
           [value |-> None, messages |-> {"no_benchmark_rows"}, requests |-> 1]
      [] answer = "fails" ->
           [value |-> None, messages |-> {"load_benchmark_failed"}, requests |-> 1]

LoadBody(request, answer) ==
    IF request.function = "load_fund_data" THEN LoadFundBody(answer)
    ELSE LoadBenchmarkBody(answer)

\* mutation of CacheKey: the client is part of the key
CacheKeyWithClient(client, request) ==
    [client |-> client, function |-> request.function, code |-> request.code,
     start_date |-> request.start_date, end_date |-> request.end_date]

\* the key of a call: the function and the arguments without _pro
CacheKey(client, request) ==
    [function |-> request.function, code |-> request.code,
     start_date |-> request.start_date, end_date |-> request.end_date]

\* mutation of Fresh: an entry never expires
FreshForever(entry, time) == TRUE

\* an entry is served until ttl seconds after it was stored
Fresh(entry, time) == time < entry.stored + ttl

InitCache ==
    /\ pc = "idle"
    /\ cache = <<>>
    /\ now = 0
    /\ vendor \in {v \in [Requests -> {"fails", "empty", "rows", "daily_only"}] :
                      \A r \in Requests : v[r] \in VendorAnswers(r)}
    /\ vendor_calls = 0
    /\ fetched = None
    /\ fund_raw = None
    /\ benchmark_raw = None
    /\ fund_data = None
    /\ renormalized = None
    /\ performance_metrics = NoMetrics
    /\ st_messages = {}
    /\ stages = <<>>
    /\ params = None
    /\ crosses = None
    /\ analysis_summary = None
    /\ arguments = <<>>
    /\ chart_crosses = None
    /\ signal_counts = None

\* one call of a loader through st.cache_data; on a hit the stored value is
\* returned and the stored messages are shown again
Fetch ==
    /\ vendor_calls < MaxVendorCalls
    /\ \E client \in Clients, request \in Requests :
          LET key == CacheKey(client, request)
              hit == key \in DOMAIN cache /\ Fresh(cache[key], now)
              body == LoadBody(request, vendor[request])
              value == IF hit THEN cache[key].value ELSE body.value
              messages == IF hit THEN cache[key].messages ELSE body.messages
          IN  /\ cache' = IF hit THEN cache
                          ELSE (key :> [value |-> body.value, messages |-> body.messages,
                                        stored |-> now]) @@ cache
              /\ vendor_calls' = IF hit THEN vendor_calls ELSE vendor_calls + body.requests
              /\ fetched' = [request |-> request, client |-> client, value |-> value]
              /\ st_messages' = st_messages \cup messages
              /\ IF request.function = "load_fund_data"
                 THEN fund_raw' = value /\ UNCHANGED benchmark_raw
                 ELSE benchmark_raw' = value /\ UNCHANGED fund_raw
    /\ pc' = "fetched"
    /\ UNCHANGED <<now, vendor>>
    /\ UNCHANGED <<fund_data, renormalized, performance_metrics, stages>>
    /\ UNCHANGED indicator_vars
    /\ UNCHANGED call_vars

\* half of ttl goes by
Tick ==
    /\ now < MaxTicks * (ttl \div 2)
    /\ now' = now + ttl \div 2
    /\ pc' = "idle"
    /\ UNCHANGED <<cache, vendor, vendor_calls, fetched>>
    /\ UNCHANGED <<fund_raw, benchmark_raw, fund_data, renormalized, performance_metrics,
                   st_messages, stages>>
    /\ UNCHANGED indicator_vars
    /\ UNCHANGED call_vars

\* the vendor starts to answer a request differently
VendorChanges ==
    /\ \E request \in Requests :
       \E answer \in VendorAnswers(request) :
          /\ answer # vendor[request]
          /\ vendor' = [vendor EXCEPT ![request] = answer]
    /\ pc' = "idle"
    /\ UNCHANGED <<cache, now, vendor_calls, fetched>>
    /\ UNCHANGED <<fund_raw, benchmark_raw, fund_data, renormalized, performance_metrics,
                   st_messages, stages>>
    /\ UNCHANGED indicator_vars
    /\ UNCHANGED call_vars

NextCache == Fetch \/ Tick \/ VendorChanges

SpecCache == InitCache /\ [][NextCache]_vars

(***************************************************************************)
(* main: one run of the page, from the sidebar parameters to the last      *)
(* chart.  pc is the statement main is about to execute; stages lists the  *)
(* calls it has made, in order.                                            *)
(***************************************************************************)
MaxMainRows == 2

MaxMainBenchRows == 1

MainDates == {"bad", "20240102", "20240103"}

MainPrices == {"None", "1.00", "1.10"}

MainRows(cols) == {r \in [cols -> MainDates \cup MainPrices] :
                      \A c \in cols : r[c] \in (IF IsDateCol(c) THEN MainDates ELSE MainPrices)}

\* the tables the vendor may answer with: fund_nav or fund_daily rows, and
\* tables that lack the date or the price column; never an empty table
VendorTables(max_rows) ==
    UNION {{DataFrame(cols, rows, RangeIndex(n)) : rows \in [1..n -> MainRows(cols)]} :
           cols \in {{"ann_date", "unit_nav"}, {"trade_date", "close"}},
           n \in 1..max_rows}
    \cup UNION {{DataFrame(cols, rows, RangeIndex(1)) : rows \in [1..1 -> MainRows(cols)]} :
                cols \in {{"unit_nav"}, {"trade_date"}}}

\* load_fund_data: the vendor's table, or None with an error when the vendor
\* has no row or the request fails
load_fund_data(max_rows) ==
    {Ret(None, "load_fund_failed")} \cup {Ret(t, "") : t \in VendorTables(max_rows)}

\* load_benchmark_data: index_daily rows with the vendor's date strings, or
\* None with a message when there is no row or the request fails
load_benchmark_data(max_rows) ==
    {Ret(None, "load_benchmark_failed")}
    \cup {Ret(DataFrame({"trade_date", "close"}, rows, RangeIndex(Len(rows))), "") :
             rows \in UNION {[1..n -> [trade_date : {[str |-> d] : d \in BenchDays},
                                       close : BenchCloses]] : n \in 1..max_rows}}

\* mutation of AfterPreprocess: main goes on whatever preprocess returned
AfterPreprocessGoesOn(value) == "preprocessed"

\* if fund_data is None: st.error(...); return
AfterPreprocess(value) == IF IsNone(value) THEN "aborted" ELSE "preprocessed"

\* the calls of main after the spinner block, in order
RenderSteps == <<"display_fund_overview", "create_nav_chart", "create_risk_charts",
                 "generate_technical_analysis_summary",
                 "create_technical_indicator_charts", "create_yearly_returns_chart">>

Init ==
    /\ pc = "start"
    /\ fund_raw = None
    /\ benchmark_raw = None
    /\ fund_data = None
    /\ renormalized = None
    /\ performance_metrics = NoMetrics
    /\ st_messages = {}
    /\ stages = <<>>
    /\ params = None
    /\ crosses = None
    /\ analysis_summary = None
    /\ arguments = <<>>
    /\ chart_crosses = None
    /\ signal_counts = None
    /\ cache = None
    /\ now = 0
    /\ vendor = None
    /\ vendor_calls = 0
    /\ fetched = None

\* the parameters create_sidebar may return: the default periods, and a
\* long period moved down to the short one
SidebarParams == [short_ma : {20}, long_ma : {20, 60}, rsi_period : {14}]

\* create_sidebar and initialize_tushare
Start ==
    /\ pc = "start"
    /\ \E outcome \in {"no_params", "no_api", "ready"} :
          /\ pc' = IF outcome = "ready" THEN "ready"
                   ELSE IF outcome = "no_params" THEN "idle" ELSE "aborted"
          /\ st_messages' = IF outcome = "ready" THEN st_messages
                            ELSE IF outcome = "no_params" THEN st_messages \cup {"set_parameters"}
                            ELSE st_messages \cup {"tushare_init_failed"}
          /\ IF outcome = "no_params" THEN params' = None
             ELSE \E p \in SidebarParams : params' = p
    /\ stages' = Append(stages, "create_sidebar")
    /\ UNCHANGED <<fund_raw, benchmark_raw, fund_data, renormalized, performance_metrics>>
    /\ UNCHANGED <<crosses, analysis_summary>>
    /\ UNCHANGED call_vars
    /\ UNCHANGED cache_vars

\* fund_raw = load_fund_data(...); if fund_raw is None: st.error(...); return
LoadFund ==
    /\ pc = "ready"
    /\ \E r \in load_fund_data(MaxMainRows) :
          /\ fund_raw' = r.value
          /\ st_messages' = IF IsNone(r.value)
                            THEN st_messages \cup {r.message, "no_fund_data"}
                            ELSE st_messages
          /\ pc' = IF IsNone(r.value) THEN "aborted" ELSE "loaded"
    /\ stages' = Append(stages, "load_fund_data")
    /\ UNCHANGED <<benchmark_raw, fund_data, renormalized, performance_metrics>>
    /\ UNCHANGED indicator_vars
    /\ UNCHANGED call_vars
    /\ UNCHANGED cache_vars

\* fund_data = preprocess_fund_data(fund_raw); if fund_data is None:
\* st.error("数据预处理失败"); return
Preprocess ==
    /\ pc = "loaded"
    /\ \E r \in preprocess_fund_data(fund_raw) :
          /\ fund_data' = r.value
          /\ st_messages' = (IF r.message = "" THEN st_messages
                             ELSE st_messages \cup {r.message})
                            \cup (IF IsNone(r.value) THEN {"preprocessing_failed"} ELSE {})
          /\ pc' = AfterPreprocess(r.value)
    /\ stages' = Append(stages, "preprocess_fund_data")
    /\ UNCHANGED <<fund_raw, benchmark_raw, renormalized, performance_metrics>>
    /\ UNCHANGED indicator_vars
    /\ arguments' = <<PreprocessArgument(fund_raw)>>
    /\ UNCHANGED <<chart_crosses, signal_counts>>
    /\ UNCHANGED cache_vars

\* benchmark_raw = load_benchmark_data(...)
LoadBenchmark ==
    /\ pc = "preprocessed"
    /\ \E r \in load_benchmark_data(MaxMainBenchRows) :
          /\ benchmark_raw' = r.value
          /\ st_messages' = Say(r.message)
    /\ pc' = "benchmarked"
    /\ stages' = Append(stages, "load_benchmark_data")
    /\ UNCHANGED <<fund_raw, fund_data, renormalized, performance_metrics>>
    /\ UNCHANGED indicator_vars
    /\ UNCHANGED call_vars
    /\ UNCHANGED cache_vars

\* the four loads of descriptive data; a load that fails shows its message
LoadFundInfo ==
    /\ pc = "benchmarked"
    /\ \E failed \in BOOLEAN :
          st_messages' = IF failed THEN st_messages \cup {"load_info_failed"} ELSE st_messages
    /\ pc' = "informed"
    /\ stages' = Append(stages, "load_fund_info")
    /\ UNCHANGED <<fund_raw, benchmark_raw, fund_data, renormalized, performance_metrics>>
    /\ UNCHANGED indicator_vars
    /\ UNCHANGED call_vars
    /\ UNCHANGED cache_vars

\* fund_data = calculate_technical_indicators(fund_data, ...)
Indicators ==
    /\ pc = "informed"
    /\ LET r == calculate_technical_indicators(fund_data, params.short_ma, params.long_ma,
                                                params.rsi_period, AllIndicators)
       IN  /\ fund_data' = r.value
           /\ st_messages' = Say(r.message)
    /\ pc' = "indicators"
    /\ stages' = Append(stages, "calculate_technical_indicators")
    /\ UNCHANGED <<fund_raw, benchmark_raw, renormalized, performance_metrics>>
    /\ UNCHANGED indicator_vars
    /\ arguments' = <<IndicatorsArgument(fund_data, params.short_ma, params.long_ma,
                                        params.rsi_period, AllIndicators)>>
    /\ UNCHANGED <<chart_crosses, signal_counts>>
    /\ UNCHANGED cache_vars

\* fund_data['rolling_volatility'] = calculate_rolling_volatility(fund_data);
\* the assignment raises when fund_data is None, and main's except reports it
RollingVolatility ==
    /\ pc = "indicators"
    /\ IF IsNone(fund_data)
       THEN /\ pc' = "failed"
            /\ st_messages' = st_messages \cup {"analysis_error"}
            /\ UNCHANGED fund_data
       ELSE /\ pc' = "volatility"
            /\ fund_data' = AssignSeries(fund_data, "rolling_volatility",
                                         calculate_rolling_volatility(fund_data, window))
            /\ UNCHANGED st_messages
    /\ stages' = Append(stages, "calculate_rolling_volatility")
    /\ UNCHANGED <<fund_raw, benchmark_raw, renormalized, performance_metrics>>
    /\ UNCHANGED indicator_vars
    /\ UNCHANGED call_vars
    /\ UNCHANGED cache_vars

\* performance_metrics = calculate_performance_metrics(fund_data, benchmark_raw)
Performance ==
    /\ pc = "volatility"
    /\ LET r == calculate_performance_metrics(fund_data, benchmark_raw)
       IN  /\ performance_metrics' = r.value
           /\ st_messages' = Say(r.message)
    /\ pc' = RenderSteps[1]
    /\ stages' = Append(stages, "calculate_performance_metrics")
    /\ UNCHANGED <<fund_raw, benchmark_raw, fund_data, renormalized>>
    /\ UNCHANGED indicator_vars
    /\ arguments' = PerformanceArguments(fund_data, benchmark_raw)
    /\ UNCHANGED <<chart_crosses, signal_counts>>
    /\ UNCHANGED cache_vars

\* the calls create_nav_chart and generate_technical_analysis_summary make
\* in turn: the chart looks for the crosses it marks, and a summary that is
\* not None is displayed
CallsOf(step, summary) ==
    IF step = "create_nav_chart" THEN <<step, "detect_cross_points">>
    ELSE IF step = "generate_technical_analysis_summary" /\ ~IsNone(summary)
    THEN <<step, "display_technical_analysis_summary">>
    ELSE <<step>>

\* the overview and the charts, one call at a time; every one of them
\* catches its own exceptions, and the last is followed by st.success
Render ==
    /\ \E k \in 1..Len(RenderSteps) :
          LET step == RenderSteps[k]
              summary == generate_technical_analysis_summary(fund_data, AllIndicators)
          IN  /\ pc = step
              /\ stages' = stages \o CallsOf(step, summary.value)
              /\ pc' = IF k = Len(RenderSteps) THEN "done" ELSE RenderSteps[k + 1]
              /\ st_messages' = IF k = Len(RenderSteps)
                                THEN st_messages \cup {"analysis_complete"}
                                ELSE IF step = "generate_technical_analysis_summary"
                                THEN Say(summary.message)
                                ELSE st_messages
              /\ chart_crosses' = IF step = "create_nav_chart"
                                  THEN detect_cross_points(fund_data, params.short_ma,
                                                           params.long_ma)
                                  ELSE chart_crosses
              /\ analysis_summary' = IF step = "generate_technical_analysis_summary"
                                     THEN summary.value
                                     ELSE analysis_summary
              /\ signal_counts' = IF step = "generate_technical_analysis_summary"
                                  THEN display_technical_analysis_summary(summary.value)
                                  ELSE signal_counts
    /\ UNCHANGED <<fund_raw, benchmark_raw, fund_data, renormalized, performance_metrics>>
    /\ UNCHANGED <<params, crosses, arguments>>
    /\ UNCHANGED cache_vars

Next ==
    \/ Start
    \/ LoadFund
    \/ Preprocess
    \/ LoadBenchmark
    \/ LoadFundInfo
    \/ Indicators
    \/ RollingVolatility
    \/ Performance
    \/ Render

Spec == Init /\ [][Next]_vars

(***************************************************************************)
(* Claims about preprocess_fund_data, checked under SpecNorm.              *)
(***************************************************************************)
Normalized == pc # "raw" /\ ~IsNone(fund_data)

NRows(df) == Len(df.rows)

\* C1: whenever preprocess_fund_data succeeds, the first row of the result
\* has cum_nav exactly 1.0 and cum_nav[i] = nav[i] / nav[0] in every row.
C1_FirstCumulativeIsOne ==
    Normalized =>
        /\ fund_data.rows[1]["cum_nav"] = One
        /\ \A i \in 1..NRows(fund_data) :
              fund_data.rows[i]["cum_nav"] =
                  FDiv(fund_data.rows[i]["nav"], fund_data.rows[1]["nav"])

\* C2: whenever preprocess_fund_data succeeds, the dates of the result are
\* strictly increasing, so that no date occurs twice.
C2_DatesStrictlyIncreasing ==
    Normalized =>
        \A i, j \in 1..NRows(fund_data) :
            i < j => fund_data.rows[i]["date"] < fund_data.rows[j]["date"]

\* C3: the date is read from ann_date when present and otherwise from
\* trade_date, the price from the first present of unit_nav, adj_nav and
\* close, and the call returns None when the table has no date column or no
\* price column.
C3_ColumnPriority ==
    pc # "raw" =>
        LET cols == fund_raw.cols
        IN  /\ ({"ann_date", "trade_date"} \cap cols = {}
                  \/ {"unit_nav", "adj_nav", "close"} \cap cols = {})
                => IsNone(fund_data)
            /\ ~IsNone(fund_data) =>
                  \A i \in 1..NRows(fund_data) :
                      LET row == fund_data.rows[i]
                      IN  /\ row["date"] =
                                ToDatetime(IF "ann_date" \in cols THEN row["ann_date"]
                                           ELSE row["trade_date"])
                          /\ row["nav"] =
                                ToNumeric(IF "unit_nav" \in cols THEN row["unit_nav"]
                                          ELSE IF "adj_nav" \in cols THEN row["adj_nav"]
                                          ELSE row["close"])

\* a successful call on a table holding both date columns and the two lower
\* price columns, with different values in them
C3_Witness ==
    /\ Normalized
    /\ fund_raw.cols = {"ann_date", "trade_date", "adj_nav", "close"}
    /\ fund_data.rows[1]["ann_date"] # fund_data.rows[1]["trade_date"]
    /\ fund_data.rows[1]["adj_nav"] # fund_data.rows[1]["close"]

\* the rows of the raw table whose date and price are both defined and parseable
GoodRow(row, cols) ==
    LET d == row[IF "ann_date" \in cols THEN "ann_date" ELSE "trade_date"]
        v == row[IF "unit_nav" \in cols THEN "unit_nav"
                 ELSE IF "adj_nav" \in cols THEN "adj_nav" ELSE "close"]
    IN  d \notin {"None", "bad"} /\ v \notin {"None", "abc"}

Count(s, P(_)) == Cardinality({i \in 1..Len(s) : P(s[i])})

RawPart(row, cols) == [c \in cols |-> row[c]]

\* C4: the result holds exactly the rows whose date and price are defined
\* and parseable (every such row, and no other), and the call fails when
\* there is no such row, so that a result is never empty.
C4_DropsExactlyBadRows ==
    (pc # "raw" /\ fund_raw.cols = {"trade_date", "close"}) =>
        LET cols == fund_raw.cols
            good == {i \in 1..NRows(fund_raw) : GoodRow(fund_raw.rows[i], cols)}
        IN  IF good = {} THEN IsNone(fund_data)
            ELSE /\ ~IsNone(fund_data)
                 /\ NRows(fund_data) = Cardinality(good)
                 /\ \A i \in good :
                       LET SameRow(r) == RawPart(r, cols) = fund_raw.rows[i]
                           Same(r) == r = fund_raw.rows[i]
                       IN  Count(fund_data.rows, SameRow) =
                               Cardinality({j \in good : Same(fund_raw.rows[j])})

Canonical3(df) ==
    [i \in 1..NRows(df) |-> <<df.rows[i]["date"], df.rows[i]["nav"], df.rows[i]["cum_nav"]>>]

\* C6: preprocess_fund_data applied to its own successful output returns the
\* same rows in the same order, with the same date, nav and cum_nav.
C6_Idempotent ==
    (pc = "renormalized" /\ ~IsNone(fund_data)) =>
        /\ ~IsNone(renormalized)
        /\ Canonical3(renormalized) = Canonical3(fund_data)
        /\ [i \in 1..NRows(renormalized) |-> RawPart(renormalized.rows[i], fund_raw.cols)]
              = [i \in 1..NRows(fund_data) |-> RawPart(fund_data.rows[i], fund_raw.cols)]

(***************************************************************************)
(* Claims about main, checked under Spec.                                  *)
(***************************************************************************)
Range(s) == {s[i] : i \in 1..Len(s)}

PreprocessFailed == "preprocess_fund_data" \in Range(stages) /\ IsNone(fund_data)

\* the calls that compute indicators, rolling volatility and performance,
\* detect the crosses (create_nav_chart) and derive the signals
DownstreamStages == {"calculate_technical_indicators", "calculate_rolling_volatility",
                     "calculate_performance_metrics", "create_nav_chart",
                     "generate_technical_analysis_summary"}

\* C5: after preprocess_fund_data fails main has returned: it runs none of
\* the indicator, rolling volatility, performance, cross and signal stages,
\* now or later, and it has shown the failure as an error.
C5_FailureAborts ==
    PreprocessFailed =>
        /\ pc = "aborted"
        /\ stages[Len(stages)] = "preprocess_fund_data"
        /\ Range(stages) \cap DownstreamStages = {}
        /\ "preprocessing_failed" \in st_messages
        /\ performance_metrics = NoMetrics

\* a run that stopped on a table without a price column
C5_Witness ==
    /\ PreprocessFailed
    /\ pc = "aborted"
    /\ fund_raw.cols = {"trade_date"}
    /\ {"no_nav_column", "preprocessing_failed"} \subseteq st_messages

(***************************************************************************)
(* Claims about calculate_performance_metrics, checked under SpecPerf.     *)
(***************************************************************************)
Measured == pc = "measured" /\ ~IsNone(fund_data)

\* a canonical series: dates strictly increasing, prices positive and finite
Canonical(df) ==
    /\ ~IsNone(df)
    /\ \A i, j \in 1..NRows(df) : i < j => df.rows[i]["date"] < df.rows[j]["date"]
    /\ \A i \in 1..NRows(df) : IsFinite(df.rows[i]["nav"]) /\ df.rows[i]["nav"].n > 0

BaseKeys == {"total_return", "annual_return", "annual_volatility",
             "max_drawdown", "sharpe_ratio", "calmar_ratio"}

RelativeKeys == {"beta", "information_ratio", "tracking_error"}

\* C7: for a canonical series total_return is cum_nav[last] / cum_nav[0] - 1,
\* which is nav[last] / nav[0] - 1; for the prices 1.00, 1.10, 1.05, 1.21,
\* 1.00 total_return is 0 and max_drawdown is (1.00 - 1.21) / 1.21.
C7_TotalReturn ==
    (Measured /\ Canonical(fund_data)) =>
        LET n == NRows(fund_data)
            m == performance_metrics
        IN  /\ ~IsNone(m)
            /\ m.total_return =
                  FSub(FDiv(fund_data.rows[n]["cum_nav"], fund_data.rows[1]["cum_nav"]), One)
            /\ m.total_return =
                  FSub(FDiv(fund_data.rows[n]["nav"], fund_data.rows[1]["nav"]), One)
            /\ fund_raw = ExampleTable =>
                  /\ m.total_return = Zero
                  /\ m.max_drawdown = Float(100 - 121, 121)

C7_Witness ==
    /\ Measured
    /\ fund_raw = ExampleTable
    /\ NRows(fund_data) = 5
    /\ performance_metrics.total_return = Zero
    /\ performance_metrics.max_drawdown = Float(-21, 121)

\* the drawdown of row i: its cum_nav against the largest cum_nav of the rows up to i
DrawdownAt(df, i) ==
    LET peak == CHOOSE p \in {df.rows[k]["cum_nav"] : k \in 1..i} :
                    \A k \in 1..i : FLeq(df.rows[k]["cum_nav"], p)
    IN  FDiv(FSub(df.rows[i]["cum_nav"], peak), peak)

\* C8: for a canonical series max_drawdown is the least drawdown of any row,
\* is never positive, and is 0 exactly when cum_nav never decreases from one
\* row to the next.
C8_MaxDrawdown ==
    (Measured /\ Canonical(fund_data)) =>
        LET n == NRows(fund_data)
            mdd == performance_metrics.max_drawdown
        IN  /\ \E i \in 1..n : mdd = DrawdownAt(fund_data, i)
            /\ \A i \in 1..n : FLeq(mdd, DrawdownAt(fund_data, i))
            /\ FLeq(mdd, Zero)
            /\ mdd = Zero <=>
                  \A i \in 1..(n - 1) :
                      FLeq(fund_data.rows[i]["cum_nav"], fund_data.rows[i + 1]["cum_nav"])

\* a canonical series that rises and then falls below its peak
C8_Witness ==
    /\ Measured
    /\ Canonical(fund_data)
    /\ NRows(fund_data) = 3
    /\ FLess(fund_data.rows[1]["cum_nav"], fund_data.rows[2]["cum_nav"])
    /\ FLess(fund_data.rows[3]["cum_nav"], fund_data.rows[2]["cum_nav"])
    /\ performance_metrics.max_drawdown = Float(-1, 11)

\* C9: no zero denominator makes the call fail: the record is returned with
\* its six base entries, sharpe_ratio is 0 whenever annual_volatility is 0
\* and calmar_ratio is 0 whenever max_drawdown is 0.
C9_ZeroDenominators ==
    Measured =>
        LET m == performance_metrics
        IN  /\ Canonical(fund_data) => ~IsNone(m)
            /\ ~IsNone(m) =>
                  /\ BaseKeys \subseteq DOMAIN m
                  /\ m.annual_volatility = Zero => m.sharpe_ratio = Zero
                  /\ m.max_drawdown = Zero => m.calmar_ratio = Zero

\* a series of three equal prices: no volatility and no drawdown
C9_Witness ==
    /\ Measured
    /\ NRows(fund_data) = 3
    /\ \A i \in 1..3 : fund_data.rows[i]["nav"] = fund_data.rows[1]["nav"]
    /\ performance_metrics.annual_volatility = Zero
    /\ performance_metrics.sharpe_ratio = Zero
    /\ performance_metrics.max_drawdown = Zero
    /\ performance_metrics.calmar_ratio = Zero

\* the calendar day of a benchmark trade_date, whichever its type
DayOf(v) == IF "ts" \in DOMAIN v THEN v.ts ELSE ToDatetime(v.str)

NoSharedDate(df, benchmark_df) ==
    \A i \in 1..NRows(df), j \in 1..NRows(benchmark_df) :
        DayOf(benchmark_df.rows[j]["trade_date"]) # df.rows[i]["date"]

\* C10: with a benchmark that shares no date with the fund series the call
\* raises nothing and returns a record holding the six base entries and
\* none of beta, information_ratio and tracking_error.
C10_NoSharedDate ==
    (Measured /\ ~IsNone(benchmark_raw) /\ NoSharedDate(fund_data, benchmark_raw)) =>
        /\ ~IsNone(performance_metrics)
        /\ DOMAIN performance_metrics = BaseKeys
        /\ "performance_failed" \notin st_messages

\* a benchmark of two rows, of Timestamps, on a day the fund has no row for
C10_Witness ==
    /\ Measured
    /\ ~IsNone(benchmark_raw)
    /\ NRows(benchmark_raw) = 2
    /\ NRows(fund_data) = 2
    /\ \A j \in 1..2 : "ts" \in DOMAIN benchmark_raw.rows[j]["trade_date"]
    /\ NoSharedDate(fund_data, benchmark_raw)
    /\ DOMAIN performance_metrics = BaseKeys

\* C11: with a benchmark that shares a date with the fund series the record
\* holds beta, information_ratio and tracking_error, all three; a record
\* holds none of them only when no date is shared or no benchmark is given.
C11_SharedDateGivesRelative ==
    (Measured /\ ~IsNone(performance_metrics)) =>
        LET shared == ~IsNone(benchmark_raw) /\ ~NoSharedDate(fund_data, benchmark_raw)
            m == performance_metrics
        IN  /\ shared => RelativeKeys \subseteq DOMAIN m
            /\ RelativeKeys \cap DOMAIN m # {} => (shared /\ RelativeKeys \subseteq DOMAIN m)

\* the rows of the fund series whose date the benchmark has, in date order
SharedRows(df, benchmark_df) ==
    SelectPos(df.rows,
              [i \in 1..NRows(df) |->
                  \E j \in 1..NRows(benchmark_df) :
                      DayOf(benchmark_df.rows[j]["trade_date"]) = df.rows[i]["date"]],
              1)

\* the benchmark's close on a day
CloseOn(benchmark_df, day) ==
    benchmark_df.rows[CHOOSE j \in 1..NRows(benchmark_df) :
                          DayOf(benchmark_df.rows[j]["trade_date"]) = day]["close"]

\* the returns of the fund over the shared days, and for each of them the
\* return of the benchmark between the same two days
FundReturnsByDate(df, benchmark_df) ==
    LET rows == SharedRows(df, benchmark_df)
    IN  [i \in 1..(Len(rows) - 1) |->
            FSub(FDiv(rows[i + 1]["nav"], rows[i]["nav"]), One)]

BenchReturnsByDate(df, benchmark_df) ==
    LET rows == SharedRows(df, benchmark_df)
    IN  [i \in 1..(Len(rows) - 1) |->
            FSub(FDiv(CloseOn(benchmark_df, rows[i + 1]["date"]),
                      CloseOn(benchmark_df, rows[i]["date"])), One)]

\* C12: the returns are paired by date: tracking_error, information_ratio
\* and beta are those of the fund returns against the benchmark returns of
\* the same days, in whatever order the rows of the benchmark arrive.
C12_PairedByDate ==
    (Measured /\ Canonical(fund_data) /\ ~IsNone(performance_metrics)
        /\ RelativeKeys \subseteq DOMAIN performance_metrics) =>
        LET fund_returns == FundReturnsByDate(fund_data, benchmark_raw)
            bench_returns == BenchReturnsByDate(fund_data, benchmark_raw)
            excess_returns == [i \in DOMAIN fund_returns |->
                                  FSub(fund_returns[i], bench_returns[i])]
            tracking_error == TimesSqrt252(Std(excess_returns))
            variance == Variance(bench_returns, 0)
            m == performance_metrics
        IN  /\ m.tracking_error = tracking_error
            /\ m.information_ratio =
                  (IF FPositive(tracking_error)
                   THEN Quotient(TimesSqrt252(Mean(excess_returns)), tracking_error)
                   ELSE Zero)
            /\ m.beta = (IF FLess(Zero, variance)
                         THEN FDiv(Covariance(fund_returns, bench_returns), variance)
                         ELSE One)

\* the variance of the benchmark returns over the aligned rows
AlignedBenchmarkVariance ==
    LET benchmark_aligned ==
            BenchmarkAligned(benchmark_raw, FundAligned(fund_data, benchmark_raw))
    IN  Variance(SeriesDropNa(PctChange(benchmark_aligned, "close")), 0)

\* C13: in a record with the benchmark entries beta is 1 whenever the
\* variance of the aligned benchmark returns is 0, and information_ratio is
\* 0 whenever tracking_error is not greater than 0.
C13_RelativeSentinels ==
    (Measured /\ ~IsNone(performance_metrics)
        /\ RelativeKeys \subseteq DOMAIN performance_metrics) =>
        LET m == performance_metrics
        IN  /\ AlignedBenchmarkVariance = Zero => m.beta = One
            /\ ~FPositive(m.tracking_error) => m.information_ratio = Zero

\* two shared days: the one benchmark return has variance 0 and the one
\* excess return no standard deviation
C13_Witness ==
    /\ Measured
    /\ ~IsNone(performance_metrics)
    /\ RelativeKeys \subseteq DOMAIN performance_metrics
    /\ Canonical(fund_data)
    /\ NRows(benchmark_raw) = 2
    /\ benchmark_raw.rows[1]["trade_date"] # benchmark_raw.rows[2]["trade_date"]
    /\ benchmark_raw.rows[1]["close"] # benchmark_raw.rows[2]["close"]
    /\ AlignedBenchmarkVariance = Zero
    /\ performance_metrics.beta = One
    /\ IsNaN(performance_metrics.tracking_error)
    /\ performance_metrics.information_ratio = Zero

(***************************************************************************)
(* Claims about the indicator calls, checked under SpecInd.                *)
(***************************************************************************)
\* a value that is not a number: None, or NaN
Undefined(v) ==
    IF "none" \in DOMAIN v THEN TRUE
    ELSE IF "op" \in DOMAIN v THEN FALSE
    ELSE IsNaN(v)

Indicated == pc \in {"indicated", "volatility", "detected"}

\* the mean of the window prices that end at row i
TrailingMean(df, i, w) ==
    FDiv(FSum([k \in (i - w + 1)..i |-> df.rows[k]["nav"]]), Float(w, 1))

\* C14: in a table that holds the moving averages, the column of a window
\* w >= 2 is undefined at exactly the rows before the w-th and holds the
\* mean of the trailing w prices at every later row; a window of 3 over 5
\* prices leaves rows 1 and 2 undefined.
C14_MovingAverage ==
    (Indicated /\ MAName(params.short_ma) \in fund_data.cols) =>
        \A w \in {params.short_ma, params.long_ma} :
            \A i \in 1..NRows(fund_data) :
                LET v == fund_data.rows[i][MAName(w)]
                IN  IF i < w THEN Undefined(v)
                    ELSE ~Undefined(v) /\ v = TrailingMean(fund_data, i, w)

\* a window of 3 over the 5 prices 1.00, 1.10, 1.10, 1.00, 1.10
C14_Witness ==
    /\ Indicated
    /\ params.long_ma = 3
    /\ "MA3" \in fund_data.cols
    /\ NRows(fund_data) = 5
    /\ Undefined(fund_data.rows[1]["MA3"])
    /\ Undefined(fund_data.rows[2]["MA3"])
    /\ fund_data.rows[3]["MA3"] = Float(320, 300)
    /\ fund_data.rows[4]["MA3"] = Float(320, 300)
    /\ fund_data.rows[5]["MA3"] = Float(320, 300)
    /\ fund_data.rows[4]["nav"] = One

\* the rows at which the two averages, all four values defined, cross upwards
GoldenRows(df, short_col, long_col) ==
    {i \in 2..NRows(df) :
        /\ \A k \in {i - 1, i} : ~Undefined(df.rows[k][short_col])
                                  /\ ~Undefined(df.rows[k][long_col])
        /\ ~FLess(df.rows[i - 1][long_col], df.rows[i - 1][short_col])
        /\ FLess(df.rows[i][long_col], df.rows[i][short_col])}

\* the rows at which they cross downwards
DeathRows(df, short_col, long_col) ==
    {i \in 2..NRows(df) :
        /\ \A k \in {i - 1, i} : ~Undefined(df.rows[k][short_col])
                                  /\ ~Undefined(df.rows[k][long_col])
        /\ ~FLess(df.rows[i - 1][short_col], df.rows[i - 1][long_col])
        /\ FLess(df.rows[i][short_col], df.rows[i][long_col])}

DatesOfRows(df, rows) ==
    SelectPos(Column(df, "date"), [i \in 1..NRows(df) |-> i \in rows], 1)

HasAverages == {MAName(params.short_ma), MAName(params.long_ma)} \subseteq fund_data.cols

\* the five prices whose averages of 2 and 3 cross upwards once, between
\* the fourth and the fifth day
SingleCrossTable == IndTable(<<"1.10", "1.10", "1.00", "1.00", "1.10">>, FALSE)

\* C15: the golden list holds the date of row i exactly when short[i-1] <=
\* long[i-1] and short[i] > long[i], the death list exactly when short[i-1]
\* >= long[i-1] and short[i] < long[i], all four values defined; one upward
\* crossing between day 4 and day 5 gives one golden date, day 5, and no
\* death date.
C15_CrossEvents ==
    pc = "detected" =>
        /\ HasAverages =>
              /\ crosses.golden_cross =
                    DatesOfRows(fund_data, GoldenRows(fund_data, MAName(params.short_ma),
                                                      MAName(params.long_ma)))
              /\ crosses.death_cross =
                    DatesOfRows(fund_data, DeathRows(fund_data, MAName(params.short_ma),
                                                     MAName(params.long_ma)))
        /\ ~HasAverages => crosses = [golden_cross |-> <<>>, death_cross |-> <<>>]
        /\ (HasAverages /\ fund_raw = SingleCrossTable /\ params.long_ma = 3) =>
              crosses = [golden_cross |-> <<5>>, death_cross |-> <<>>]

C15_Witness ==
    /\ pc = "detected"
    /\ HasAverages
    /\ fund_raw = SingleCrossTable
    /\ params.short_ma = 2
    /\ params.long_ma = 3
    /\ crosses = [golden_cross |-> <<5>>, death_cross |-> <<>>]

\* C16: the two lists share no date, each is in chronological order, and
\* every date in them is the date of a row at which both averages are
\* defined.
C16_CrossListsDisjoint ==
    pc = "detected" =>
        LET golden == crosses.golden_cross
            death == crosses.death_cross
        IN  /\ Range(golden) \cap Range(death) = {}
            /\ \A i, j \in 1..Len(golden) : i < j => golden[i] < golden[j]
            /\ \A i, j \in 1..Len(death) : i < j => death[i] < death[j]
            /\ \A d \in Range(golden) \cup Range(death) :
                  /\ HasAverages
                  /\ \E i \in 1..NRows(fund_data) :
                        /\ fund_data.rows[i]["date"] = d
                        /\ ~Undefined(fund_data.rows[i][MAName(params.short_ma)])
                        /\ ~Undefined(fund_data.rows[i][MAName(params.long_ma)])

\* C17: when one requested indicator raises, the table still holds the
\* columns of every other requested indicator, those computed before it and
\* those listed after it.
C17_FailureIsolated ==
    Indicated =>
        LET n == NRows(fund_data)
        IN  \A indicator \in params.selected_indicators :
               ~Raises(indicator, n) => IndicatorColumns(indicator, n) \subseteq fund_data.cols

\* the columns of an indicator of the catalog
CatalogColumns(indicator, n) ==
    CASE indicator = "MA_SHORT" -> {MAName(params.short_ma)}
      [] indicator = "MA_LONG" -> {MAName(params.long_ma)}
      [] indicator = "RSI" -> {RSIName(params.rsi_period)}
      [] OTHER -> IndicatorColumns(indicator, n)

Catalog == {"MA_SHORT", "MA_LONG", "RSI"} \cup AllIndicators

\* C18: the table holds the columns of an indicator of the catalog if and
\* only if the indicator is in the requested set, and an indicator that is
\* not requested causes no error.
C18_RequestedOnly ==
    Indicated =>
        LET n == NRows(fund_data)
        IN  /\ \A indicator \in Catalog :
                  (CatalogColumns(indicator, n) \subseteq fund_data.cols)
                      <=> (indicator \in params.selected_indicators)
            /\ params.selected_indicators = {} => "indicators_failed" \notin st_messages

\* the return of row j of a frame, and the rolling volatility of the window
\* returns that end at row i
ReturnAt(df, j) == FSub(FDiv(df.rows[j]["nav"], df.rows[j - 1]["nav"]), One)

VolatilityAt(df, i, w) ==
    IF i - 1 < w THEN NaN
    ELSE TimesSqrt252(Std([j \in 1..w |-> ReturnAt(df, i - w + j)]))

\* C19: after the indicator columns and rolling_volatility are added the
\* table has the rows it had, with the same labels, dates, prices and
\* cumulative values; every row has one value in every column, and the
\* rolling volatility of a row is that of the returns ending at that row.
C19_ColumnsAligned ==
    pc \in {"volatility", "detected"} =>
        LET before == IndFrame(fund_raw)
            n == NRows(fund_data)
        IN  /\ n = NRows(before)
            /\ fund_data.index = before.index
            /\ before.cols \subseteq fund_data.cols
            /\ \A i \in 1..n :
                  /\ DOMAIN fund_data.rows[i] = fund_data.cols
                  /\ \A c \in before.cols : fund_data.rows[i][c] = before.rows[i][c]
                  /\ fund_data.rows[i]["rolling_volatility"] =
                        VolatilityAt(fund_data, i, params.window)

\* the table whose labels skip a dropped row, with a window of 2 returns:
\* the last two rows have a rolling volatility, the rows before them none
C19_Witness ==
    /\ pc = "volatility"
    /\ fund_raw = GappedTable
    /\ params.window = 2
    /\ fund_data.index = <<0, 2, 3, 4>>
    /\ "MA2" \in fund_data.cols
    /\ IsNaN(fund_data.rows[1]["rolling_volatility"])
    /\ IsNaN(fund_data.rows[2]["rolling_volatility"])
    /\ Symbolic(fund_data.rows[3]["rolling_volatility"])
    /\ Symbolic(fund_data.rows[4]["rolling_volatility"])

(***************************************************************************)
(* Claims about generate_technical_analysis_summary, checked under         *)
(* SpecSummary.                                                            *)
(***************************************************************************)
Summarized == pc = "summarized" /\ ~IsNone(analysis_summary)

\* an indicator whose latest value, in a column the summary reads, is NaN
LatestUndefined(df, g) ==
    \E c \in SummaryColumns(df, g) : IsNaN(Latest(df)[c])

\* C20: an indicator whose latest value is undefined adds nothing to the
\* bullish tally and nothing to the bearish tally: the two tallies count
\* signals of the indicators whose latest values are defined, and no other.
C20_UndefinedAddsNothing ==
    Summarized =>
        LET defined == {g \in Analysed(fund_data) : ~LatestUndefined(fund_data, g)}
            signal == analysis_summary.indicator_analysis
        IN  /\ analysis_summary.signals_bullish =
                  Cardinality({g \in defined : signal[g] \in BullishSignals})
            /\ analysis_summary.signals_bearish =
                  Cardinality({g \in defined : signal[g] \in BearishSignals})

\* the number of analysed indicators whose label, in the summary, is one of
\* the given labels
CountLabels(labels) ==
    Cardinality({g \in DOMAIN analysis_summary.indicator_analysis :
                    analysis_summary.indicator_analysis[g] \in labels})

\* C21: the overall signal is bullish exactly when more labels vote bullish
\* than bearish, bearish exactly when more vote bearish, and neutral exactly
\* when the two counts are equal, also when no indicator is analysed.
C21_OverallSignal ==
    Summarized =>
        LET bullish_count == CountLabels(BullishSignals)
            bearish_count == CountLabels(BearishSignals)
        IN  /\ (analysis_summary.overall_signal = "bullish") <=> (bullish_count > bearish_count)
            /\ (analysis_summary.overall_signal = "bearish") <=> (bearish_count > bullish_count)
            /\ (analysis_summary.overall_signal = "neutral") <=> (bullish_count = bearish_count)

\* a tie of one bullish and one bearish label gives a neutral overall signal
C21_Witness ==
    /\ Summarized
    /\ CountLabels(BullishSignals) = 1
    /\ CountLabels(BearishSignals) = 1
    /\ analysis_summary.overall_signal = "neutral"

\* the latest value of a column of the table, NaN when the table has no
\* such column
LatestOf(df, c) == IF c \in df.cols THEN Latest(df)[c] ELSE NaN

\* C22: the risk level is high when both volatility flags are set, medium
\* when exactly one is set and low when none is set; the first flag is set
\* when the latest RSI of the configured period is more than 30 away from
\* 50, the second when the latest ATR is above 0.02.
C22_RiskLevel ==
    Summarized =>
        LET rsi_latest == LatestOf(fund_data, RSIName(params.rsi_period))
            atr_latest == LatestOf(fund_data, "ATR")
            rsi_flag == FLess(Float(30, 1), FAbs(FSub(rsi_latest, Float(50, 1))))
            atr_flag == ~IsNone(atr_latest) /\ FLess(Float(1, 50), atr_latest)
        IN  analysis_summary.risk_level =
               IF rsi_flag /\ atr_flag THEN "high"
               ELSE IF rsi_flag \/ atr_flag THEN "medium"
               ELSE "low"

(***************************************************************************)
(* Claims about one run of main and its operations, checked under Spec.    *)
(***************************************************************************)
LastStage(s) == IF Len(s) = 0 THEN "" ELSE s[Len(s)]

\* C23: the operations of the pipeline leave their inputs as they were:
\* when preprocess_fund_data returns the raw table is unchanged, when
\* calculate_technical_indicators returns the table it was given is
\* unchanged, and when calculate_performance_metrics returns the fund table
\* and the benchmark table are unchanged.
C23_InputsUnchanged ==
    [][/\ (stages' # stages /\ LastStage(stages') \in {"preprocess", "preprocess_fund_data"})
            => arguments' = <<IF pc = "normalized" THEN fund_data ELSE fund_raw>>
       /\ (stages' # stages /\ LastStage(stages') = "calculate_technical_indicators")
            => arguments' = <<fund_data>>
       /\ (stages' # stages /\ LastStage(stages') \in {"performance", "calculate_performance_metrics"})
            => /\ arguments' = <<fund_data, benchmark_raw'>>
               /\ fund_data' = fund_data
               /\ pc # "volatility" \/ benchmark_raw' = benchmark_raw]_vars

\* a run in which the three operations returned: the raw table has two
\* rows, and the table handed to calculate_performance_metrics is the
\* canonical one with its rolling volatility, next to a benchmark table
C23_Witness ==
    /\ LastStage(stages) = "calculate_performance_metrics"
    /\ Len(fund_raw.rows) = 2
    /\ ~IsNone(benchmark_raw)
    /\ arguments = <<fund_data, benchmark_raw>>
    /\ "date" \notin fund_raw.cols
    /\ "rolling_volatility" \in fund_data.cols

(***************************************************************************)
(* Claims about the cached loaders, checked under SpecCache.               *)
(***************************************************************************)
\* C24: the cache is only an optimisation: the value a call returns is the
\* value its body would return at that moment from what the vendor answers,
\* also when the vendor answers after an earlier call failed or found no
\* row.
C24_CacheTransparent ==
    pc = "fetched" =>
        fetched.value = LoadBody(fetched.request, vendor[fetched.request]).value

\* a key of the store is for a request when it has its function, its
\* identifier and its dates, whichever client stored it
KeyFor(k, request) ==
    /\ k.function = request.function
    /\ k.code = request.code
    /\ k.start_date = request.start_date
    /\ k.end_date = request.end_date

\* the unexpired entries of the store for a request
StoredFor(request) ==
    {k \in DOMAIN cache : KeyFor(k, request) /\ now - cache[k].stored < ttl}

\* C28: the store is keyed by the identifier and the date range only and an
\* entry expires ttl after it was stored: a call that finds an unexpired
\* entry for its identifier and dates returns the stored value and makes no
\* request to the vendor, whichever client it is given, and a call that
\* finds none makes a request and stores what it returns.
C28_KeyAndExpiry ==
    [][pc' = "fetched" =>
          LET stored == StoredFor(fetched'.request)
          IN  IF stored # {}
              THEN /\ vendor_calls' = vendor_calls
                   /\ cache' = cache
                   /\ \A k \in stored : fetched'.value = cache[k].value
              ELSE /\ vendor_calls' > vendor_calls
                   /\ \E k \in DOMAIN cache' :
                         /\ KeyFor(k, fetched'.request)
                         /\ cache'[k].stored = now
                         /\ cache'[k].value = fetched'.value]_vars

\* the store holds one key; its entry was stored by the second request to
\* the vendor, at ttl, after the entry of the first had expired, and half
\* of ttl later a call of the second client is served from the store
C28_Witness ==
    /\ pc = "fetched"
    /\ fetched.client = "pro_b"
    /\ now = ttl + ttl \div 2
    /\ vendor_calls = 2
    /\ Cardinality(DOMAIN cache) = 1
    /\ \A k \in DOMAIN cache :
          /\ KeyFor(k, fetched.request)
          /\ cache[k].stored = ttl
          /\ cache[k].messages = {}
          /\ cache[k].value = fetched.value

(***************************************************************************)
(* More claims about the summary, checked under SpecSummary.               *)
(***************************************************************************)
\* the labels that say neither up nor down: neutral, and the label of the
\* DMI rule for a weak trend
NeutralLabels == {"neutral", "ranging"}

\* C25: every analysed indicator has at most one vote: the bullish and the
\* bearish tally together count the indicators whose label is not neutral,
\* each of them once, and never more than the entries of
\* indicator_analysis.
C25_OneVoteEach ==
    Summarized =>
        LET signal == analysis_summary.indicator_analysis
            voting == {g \in DOMAIN signal : signal[g] \notin NeutralLabels}
        IN  /\ analysis_summary.signals_bullish + analysis_summary.signals_bearish
                  = Cardinality(voting)
            /\ analysis_summary.signals_bullish + analysis_summary.signals_bearish
                  <= Cardinality(DOMAIN signal)
            /\ analysis_summary.signals_bullish >= 0
            /\ analysis_summary.signals_bearish >= 0

\* three indicators are analysed: the Bollinger rule votes bearish, TRIX
\* votes bullish and MACD is neutral
C25_Witness ==
    /\ Summarized
    /\ DOMAIN analysis_summary.indicator_analysis = {"BOLL", "TRIX", "MACD"}
    /\ analysis_summary.indicator_analysis["BOLL"] = "weak"
    /\ analysis_summary.indicator_analysis["TRIX"] = "bullish"
    /\ analysis_summary.indicator_analysis["MACD"] = "neutral"
    /\ analysis_summary.signals_bullish = 1
    /\ analysis_summary.signals_bearish = 1

\* C30: the counts display_technical_analysis_summary shows are the
\* tallies generate_technical_analysis_summary chose the overall signal
\* from, whatever the labels are.
C30_DisplayedCounts ==
    (pc = "displayed" /\ ~IsNone(analysis_summary)) =>
        /\ signal_counts.bullish_count = analysis_summary.signals_bullish
        /\ signal_counts.bearish_count = analysis_summary.signals_bearish

(***************************************************************************)
(* One more claim about preprocess_fund_data, checked under SpecNorm.      *)
(***************************************************************************)
\* the rows of a sequence of rows that have the date d, in their order,
\* each reduced to the raw columns
RowsOfDate(rows, cols, d, kept) ==
    SelectPos([i \in 1..Len(rows) |-> RawPart(rows[i], cols)],
              [i \in 1..Len(rows) |-> rows[i]["trade_date"] = d /\ kept[i]], 1)

\* C26: the sort by date is stable: the records of one date are in the
\* result in the order they have in the raw table.
C26_StableSort ==
    (pc = "normalized" /\ ~IsNone(fund_data) /\ fund_raw.cols = {"trade_date", "close"}) =>
        LET cols == fund_raw.cols
        IN  \A d \in RawDates :
               RowsOfDate(fund_data.rows, cols, d, [i \in 1..NRows(fund_data) |-> TRUE])
                  = RowsOfDate(fund_raw.rows, cols, d,
                               [i \in 1..NRows(fund_raw) |-> GoodRow(fund_raw.rows[i], cols)])

(***************************************************************************)
(* The two cross detectors, checked under SpecInd.                         *)
(***************************************************************************)
\* C29: detect_cross_points returns the golden-cross list and the
\* death-cross list that detect_golden_cross_death_cross returns for the
\* same table and the same periods, two empty lists included when an
\* average column is missing or the scan fails.
C29_DetectorsAgree ==
    pc = "charted" =>
        /\ chart_crosses.golden_cross = crosses.golden_cross
        /\ chart_crosses.death_cross = crosses.death_cross

\* the averages are equal on the fourth day and the short one is above the
\* long one on the fifth: both detectors return that day as a golden cross
C29_Witness ==
    /\ pc = "charted"
    /\ fund_raw = SingleCrossTable
    /\ params.short_ma = 2
    /\ params.long_ma = 3
    /\ Len(chart_crosses.golden_cross) = 1
    /\ chart_crosses.golden_cross = crosses.golden_cross
    /\ chart_crosses.death_cross = <<>>

(***************************************************************************)
(* The order of the calls of one run of main, checked under Spec.          *)
(***************************************************************************)
\* the calls that compute a stage of the pipeline, and the calls that put
\* results on the page
ComputationCalls ==
    {"preprocess_fund_data", "calculate_technical_indicators", "calculate_rolling_volatility",
     "calculate_performance_metrics", "detect_cross_points",
     "detect_golden_cross_death_cross", "generate_technical_analysis_summary"}

RenderingCalls == {"display_fund_overview", "display_technical_analysis_summary"}

\* C27: in one run of main every stage of the computation is complete
\* before the first result is rendered: no call that computes a stage
\* comes after a call that renders.
C27_ComputeBeforeRender ==
    \A i, j \in 1..Len(stages) :
        (i < j /\ stages[i] \in RenderingCalls) => stages[j] \notin ComputationCalls

====
